---- MODULE Spec2Model ----
(***************************************************************************)
(* Record ingestion and bank classification engine of src/app.py: the      *)
(* phone normaliser, the IBAN classifier and its routing table, the two    *)
(* parsers, the in-memory client store with its per-bank index, and the    *)
(* handlers that read and write the store.                                 *)
(*                                                                         *)
(* Representation of Python values                                         *)
(*   str    a sequence of characters, each character a one-character TLA+  *)
(*          string.  A display name of the routing table and a formatted   *)
(*          timestamp are sequences of ONE token (the code never looks     *)
(*          inside them, it only compares and concatenates them).          *)
(*   None   the sequence None, which no string equals.                     *)
(*   dict   a function; its key order (insertion order) is kept beside it  *)
(*          where the code iterates over it.                               *)
(***************************************************************************)
EXTENDS Integers, Sequences, FiniteSets, TLC

\* Python's None: a one-token sequence that is no string of characters.
None == <<"<None>">>

\* The characters the class \d of a str pattern matches: the ASCII digits and
\* the decimal digits of the other scripts, of which ARABIC-INDIC DIGIT THREE
\* (one character, written "U+0663") stands here.
Digits == {"0", "1", "2", "3", "4", "5", "6", "7", "8", "9", "U+0663"}

\* The characters str.strip() and the regular expression \s remove.
Whitespace == {" ", "\t", "\n", "\r"}

LowerLetters ==
    <<"a","b","c","d","e","f","g","h","i","j","k","l","m",
      "n","o","p","q","r","s","t","u","v","w","x","y","z","é">>

UpperLetters ==
    <<"A","B","C","D","E","F","G","H","I","J","K","L","M",
      "N","O","P","Q","R","S","T","U","V","W","X","Y","Z","É">>

\* str.upper() and str.lower(), character by character.
UpperChar(c) ==
    IF \E i \in DOMAIN LowerLetters : LowerLetters[i] = c
    THEN UpperLetters[CHOOSE i \in DOMAIN LowerLetters : LowerLetters[i] = c]
    ELSE c

LowerChar(c) ==
    IF \E i \in DOMAIN UpperLetters : UpperLetters[i] = c
    THEN LowerLetters[CHOOSE i \in DOMAIN UpperLetters : UpperLetters[i] = c]
    ELSE c

Upper(s) == [i \in DOMAIN s |-> UpperChar(s[i])]

Lower(s) == [i \in DOMAIN s |-> LowerChar(s[i])]

SetMin(S) == CHOOSE x \in S : \A y \in S : x <= y

SetMax(S) == CHOOSE x \in S : \A y \in S : x >= y

\* s.startswith(p)
StartsWith(s, p) == Len(s) >= Len(p) /\ SubSeq(s, 1, Len(p)) = p

\* p in s (substring test)
Contains(s, p) ==
    \E i \in 0..(Len(s) - Len(p)) : SubSeq(s, i + 1, i + Len(p)) = p

\* s.strip()
Strip(s) ==
    LET keep == {i \in DOMAIN s : s[i] \notin Whitespace}
    IN  IF keep = {} THEN <<>> ELSE SubSeq(s, SetMin(keep), SetMax(keep))

\* s.replace(c, '') for a one-character c
Without(s, c) == SelectSeq(s, LAMBDA x : x # c)

AllDigits(s) == \A i \in DOMAIN s : s[i] \in Digits

\* s.split(sep) for a one-character sep: the pieces between the separators.
Split(s, sep) ==
    LET cuts == {i \in DOMAIN s : s[i] = sep}
        CutAt(k) == CHOOSE i \in cuts : Cardinality({j \in cuts : j <= i}) = k
        n == Cardinality(cuts)
    IN  [k \in 1..(n + 1) |->
            SubSeq(s,
                   IF k = 1 THEN 1 ELSE CutAt(k - 1) + 1,
                   IF k = n + 1 THEN Len(s) ELSE CutAt(k) - 1)]

\* s.split(sep, 1): at most one cut, at the first separator.
SplitOnce(s, sep) ==
    LET cuts == {i \in DOMAIN s : s[i] = sep}
    IN  IF cuts = {} THEN <<s>>
        ELSE <<SubSeq(s, 1, SetMin(cuts) - 1), SubSeq(s, SetMin(cuts) + 1, Len(s))>>

\* sep.join(parts)
RECURSIVE Join(_, _)
Join(parts, sep) ==
    IF parts = <<>> THEN <<>>
    ELSE IF Len(parts) = 1 THEN parts[1]
    ELSE parts[1] \o sep \o Join(Tail(parts), sep)

(***************************************************************************)
(* PhoneNormalizer                                                         *)
(***************************************************************************)

\* The five shape rules in order: the literal prefix of each pattern; every
\* pattern continues with (\d{9})$ and every transform is '0' + group 1.
\* patterns without the rule of the bare nine digits.
patterns_NoBare ==
    << <<"0","0","3","3">>, <<"+","3","3">>, <<"3","3">>, <<"0">> >>

patterns ==
    << <<"0","0","3","3">>, <<"+","3","3">>, <<"3","3">>, <<"0">>, <<>> >>

\* re.match(pattern, cleaned)
PatternMatches(i, cleaned) ==
    /\ StartsWith(cleaned, patterns[i])
    /\ Len(cleaned) = Len(patterns[i]) + 9
    /\ AllDigits(SubSeq(cleaned, Len(patterns[i]) + 1, Len(cleaned)))

\* PatternResult that writes "00" before the first eight digits matched.
PatternResult_Shifted(i, cleaned) ==
    <<"0", "0">> \o SubSeq(cleaned, Len(patterns[i]) + 1, Len(cleaned) - 1)

\* transform(match)
PatternResult(i, cleaned) ==
    <<"0">> \o SubSeq(cleaned, Len(patterns[i]) + 1, Len(cleaned))

normalize_phone(phone) ==
    IF phone = None \/ phone = <<>> THEN None
    ELSE LET cleaned == SelectSeq(phone, LAMBDA c : c \in Digits \/ c = "+")
             hits == {i \in DOMAIN patterns :
                         /\ PatternMatches(i, cleaned)
                         /\ Len(PatternResult(i, cleaned)) = 10
                         /\ StartsWith(PatternResult(i, cleaned), <<"0">>)}
         IN  IF hits = {} THEN None ELSE PatternResult(SetMin(hits), cleaned)

(***************************************************************************)
(* BankRoutingTable and AccountClassifier (class IBANDetector)             *)
(***************************************************************************)

\* src/app.py:127-234, the literal's entries in source order (a repeated key keeps its last value).
local_banks_items ==
    << <<<<"1","0","9","0","7">>, "BNP Paribas">>,
       <<<<"3","0","0","0","4">>, "BNP Paribas">>,
       <<<<"3","0","0","0","1">>, "BNP Paribas">>,
       <<<<"1","0","1","0","8">>, "BNP Paribas">>,
       <<<<"3","0","0","0","3">>, "Société Générale">>,
       <<<<"3","0","0","0","2">>, "Société Générale">>,
       <<<<"2","0","0","4","1">>, "La Banque Postale">>,
       <<<<"3","0","0","5","6">>, "BRED">>,
       <<<<"1","0","1","0","7">>, "BRED Banque Populaire">>,
       <<<<"1","0","2","7","8">>, "Crédit Mutuel">>,
       <<<<"1","0","0","6","8">>, "Crédit Mutuel Anjou">>,
       <<<<"1","0","0","9","6">>, "Crédit Mutuel Océan">>,
       <<<<"1","0","1","3","8">>, "Crédit Mutuel Maine-Anjou">>,
       <<<<"1","0","7","5","8">>, "Crédit Mutuel Nord Europe">>,
       <<<<"1","0","5","1","8">>, "Crédit Mutuel Île-de-France">>,
       <<<<"1","0","7","9","8">>, "Crédit Mutuel Dauphiné-Vivarais">>,
       <<<<"1","0","8","3","8">>, "Crédit Mutuel Midi-Atlantique">>,
       <<<<"1","0","5","4","8">>, "Crédit Mutuel Centre">>,
       <<<<"1","0","8","7","8">>, "Crédit Mutuel Savoie-Mont Blanc">>,
       <<<<"1","0","7","3","8">>, "Crédit Mutuel Loire-Atlantique Centre Ouest">>,
       <<<<"1","0","2","0","7">>, "Crédit Mutuel">>,
       <<<<"1","0","9","0","6">>, "CIC">>,
       <<<<"1","1","0","2","7">>, "CIC Lyonnaise de Banque">>,
       <<<<"1","1","3","1","5">>, "CIC Ouest">>,
       <<<<"1","1","5","1","6">>, "CIC Est">>,
       <<<<"1","1","7","0","6">>, "CIC Sud Ouest">>,
       <<<<"3","0","0","6","6">>, "CIC">>,
       <<<<"1","0","1","0","7">>, "Banque Populaire">>,
       <<<<"1","3","3","5","7">>, "Banque Populaire Auvergne Rhône Alpes">>,
       <<<<"1","1","4","5","5">>, "Banque Populaire Bourgogne Franche-Comté">>,
       <<<<"1","2","4","5","5">>, "Banque Populaire Grand Ouest">>,
       <<<<"1","3","1","3","5">>, "Banque Populaire Méditerranée">>,
       <<<<"1","3","8","2","5">>, "Banque Populaire Occitane">>,
       <<<<"1","4","4","4","5">>, "Banque Populaire Rives de Paris">>,
       <<<<"1","4","5","5","9">>, "Banque Populaire Val de France">>,
       <<<<"1","7","0","6","8">>, "Banque Populaire Alsace Lorraine Champagne">>,
       <<<<"1","8","3","1","5">>, "Banque Populaire du Nord">>,
       <<<<"1","8","4","1","5">>, "Banque Populaire">>,
       <<<<"1","0","6","9","5">>, "Caisse d'Épargne">>,
       <<<<"1","0","7","7","8">>, "Caisse d'Épargne Île-de-France">>,
       <<<<"1","1","3","1","5">>, "Caisse d'Épargne Loire-Centre">>,
       <<<<"1","2","1","3","5">>, "Caisse d'Épargne Provence-Alpes-Corse">>,
       <<<<"1","2","5","4","8">>, "Caisse d'Épargne Aquitaine Poitou-Charentes">>,
       <<<<"1","2","7","5","5">>, "Caisse d'Épargne Midi-Pyrénées">>,
       <<<<"1","3","6","2","5">>, "Caisse d'Épargne Bretagne-Pays de Loire">>,
       <<<<"1","3","7","1","5">>, "Caisse d'Épargne Côte d'Azur">>,
       <<<<"1","5","1","3","5">>, "Caisse d'Épargne Bourgogne Franche-Comté">>,
       <<<<"1","5","5","8","9">>, "Caisse d'Épargne Loire Drôme Ardèche">>,
       <<<<"1","6","5","1","5">>, "Caisse d'Épargne Grand Est Europe">>,
       <<<<"1","7","5","1","5">>, "Caisse d'Épargne Hauts de France">>,
       <<<<"1","8","3","1","5">>, "Caisse d'Épargne Normandie">>,
       <<<<"1","7","9","0","6">>, "Caisse d'Épargne Rhône Alpes">>,
       <<<<"1","6","7","9","8">>, "ING Direct">>,
       <<<<"1","2","5","4","8">>, "Boursorama">>,
       <<<<"1","7","5","1","5">>, "Monabanq">>,
       <<<<"1","8","2","0","6">>, "N26">>,
       <<<<"1","6","9","5","8">>, "Hello Bank">>,
       <<<<"1","3","6","9","8">>, "Fortuneo">>,
       <<<<"1","5","5","8","9">>, "BforBank">>,
       <<<<"1","2","9","6","8">>, "Orange Bank">>,
       <<<<"3","0","0","0","2">>, "LCL - Le Crédit Lyonnais">>,
       <<<<"3","0","0","0","5">>, "LCL">>,
       <<<<"3","0","0","2","7">>, "Crédit Coopératif">>,
       <<<<"3","0","0","5","6">>, "BRED">>,
       <<<<"1","3","5","0","6">>, "Crédit du Nord">>,
       <<<<"1","0","4","7","9">>, "Banque Kolb">>,
       <<<<"1","0","5","2","9">>, "Banque Nuger">>,
       <<<<"1","0","5","8","9">>, "Banque Laydernier">>,
       <<<<"1","0","6","0","9">>, "Banque Rhône-Alpes">>,
       <<<<"1","0","8","6","8">>, "Banque Tarneaud">>,
       <<<<"1","5","5","8","9">>, "Banque Palatine">>,
       <<<<"1","8","3","1","5">>, "Société Marseillaise de Crédit">>,
       <<<<"3","0","0","0","6">>, "HSBC France">>,
       <<<<"3","0","0","0","7">>, "Barclays">>,
       <<<<"1","2","7","3","9">>, "Crédit Foncier">>,
       <<<<"1","3","1","3","4">>, "Banque Accord">>,
       <<<<"1","5","1","3","5">>, "Banque Casino">>,
       <<<<"1","6","9","5","8">>, "Revolut">>,
       <<<<"1","8","2","0","6">>, "N26">>,
       <<<<"1","7","5","1","5">>, "Qonto">>,
       <<<<"1","2","9","6","8">>, "Nickel">> >>

\* src/app.py:237-284, the literal's entries in source order (a repeated key keeps its last value).
codes_ca_items ==
    << <<<<"1","3","9","0","6">>, "Crédit Agricole Centre-Est">>,
       <<<<"1","4","7","0","6">>, "Crédit Agricole Atlantique Vendée">>,
       <<<<"1","8","7","0","6">>, "Crédit Agricole Île-de-France">>,
       <<<<"1","6","9","0","6">>, "Crédit Agricole Pyrénées Gascogne">>,
       <<<<"1","8","2","0","6">>, "Crédit Agricole Nord-Est">>,
       <<<<"1","1","7","0","6">>, "Crédit Agricole Charente Périgord">>,
       <<<<"1","0","2","0","6">>, "Crédit Agricole Nord de France">>,
       <<<<"1","3","3","0","6">>, "Crédit Agricole Aquitaine">>,
       <<<<"1","3","6","0","6">>, "Crédit Agricole Centre Ouest">>,
       <<<<"1","4","5","0","6">>, "Crédit Agricole Centre Loire">>,
       <<<<"1","6","6","0","6">>, "Crédit Agricole Normandie-Seine">>,
       <<<<"1","7","2","0","6">>, "Crédit Agricole Alsace Vosges">>,
       <<<<"1","7","9","0","6">>, "Crédit Agricole Anjou Maine">>,
       <<<<"1","2","4","0","6">>, "Crédit Agricole Charente-Maritime">>,
       <<<<"1","2","9","0","6">>, "Crédit Agricole Finistère">>,
       <<<<"1","2","2","0","6">>, "Crédit Agricole Morbihan">>,
       <<<<"1","4","8","0","6">>, "Crédit Agricole Languedoc">>,
       <<<<"1","7","1","0","6">>, "Crédit Agricole Loire Haute-Loire">>,
       <<<<"1","1","2","0","6">>, "Crédit Agricole Brie Picardie">>,
       <<<<"1","3","1","0","6">>, "Crédit Agricole Alpes Provence">>,
       <<<<"1","4","4","0","6">>, "Crédit Agricole Ille-et-Vilaine">>,
       <<<<"1","6","1","0","6">>, "Crédit Agricole Deux-Sèvres">>,
       <<<<"1","6","7","0","6">>, "Crédit Agricole Sud Rhône Alpes">>,
       <<<<"1","7","3","0","6">>, "Crédit Agricole Sud Méditerranée">>,
       <<<<"1","8","1","0","6">>, "Crédit Agricole Touraine Poitou">>,
       <<<<"1","9","1","0","6">>, "Crédit Agricole Centre France">>,
       <<<<"1","2","5","0","6">>, "Crédit Agricole Loire Océan">>,
       <<<<"1","3","2","0","6">>, "Crédit Agricole Midi-Pyrénées">>,
       <<<<"1","4","2","0","6">>, "Crédit Agricole Normandie">>,
       <<<<"1","5","2","0","6">>, "Crédit Agricole Savoie Mont Blanc">>,
       <<<<"1","6","2","0","6">>, "Crédit Agricole Franche-Comté">>,
       <<<<"1","7","6","0","6">>, "Crédit Agricole Lorraine">>,
       <<<<"1","8","4","0","6">>, "Crédit Agricole Val de France">>,
       <<<<"1","9","4","0","6">>, "Crédit Agricole Provence Côte d'Azur">>,
       <<<<"1","9","9","0","6">>, "Crédit Agricole Côtes d'Armor">>,
       <<<<"1","6","8","0","6">>, "Crédit Agricole Cantal Auvergne">>,
       <<<<"1","2","0","0","6">>, "Crédit Agricole Corse">>,
       <<<<"1","1","0","0","6">>, "Crédit Agricole Champagne-Bourgogne">>,
       <<<<"1","6","0","0","6">>, "Crédit Agricole Morbihan">>,
       <<<<"1","7","8","0","6">>, "Crédit Agricole Centre-Est">>,
       <<<<"1","3","5","0","6">>, "Crédit Agricole Languedoc">>,
       <<<<"1","8","3","0","6">>, "Crédit Agricole Normandie">>,
       <<<<"1","1","3","0","6">>, "Crédit Agricole Alpes Provence">>,
       <<<<"3","0","0","0","2">>, "Crédit Agricole">>,
       <<<<"1","1","3","1","5">>, "Crédit Agricole">>,
       <<<<"1","3","3","3","5">>, "Crédit Agricole">> >>

\* A dict literal: the keys of the items, each with its last value.
DictOf(items) ==
    [k \in {items[i][1] : i \in DOMAIN items} |->
        items[SetMax({i \in DOMAIN items : items[i][1] = k})][2]]

local_banks == DictOf(local_banks_items)

codes_ca == DictOf(codes_ca_items)

\* MergeDicts in which the first table keeps its entries.
MergeDicts_FirstWins(a, b) ==
    [k \in (DOMAIN a) \cup (DOMAIN b) |-> IF k \in DOMAIN a THEN a[k] ELSE b[k]]

\* {**a, **b}
MergeDicts(a, b) ==
    [k \in (DOMAIN a) \cup (DOMAIN b) |-> IF k \in DOMAIN b THEN b[k] ELSE a[k]]

all_banks == MergeDicts(local_banks, codes_ca)

\* self.all_banks.get(code): the display name as a string, or None.
all_banks_get(code) ==
    IF code \in DOMAIN all_banks THEN <<all_banks[code]>> ELSE None

NA == <<"N","/","A">>

unknown == <<"u","n","k","n","o","w","n">>

FR == <<"F","R">>

BanqueEtrangere == <<"Banque étrangère">>

IbanInvalide == <<"IBAN invalide">>

\* f"Banque française ({code_banque})"
BanqueFrancaise(code) == <<"Banque française (">> \o code \o <<")">>

\* clean_iban that leaves the hyphens in.
clean_iban_KeepHyphens(iban) ==
    IF iban = None \/ iban = <<>> THEN <<>>
    ELSE Upper(Without(iban, " "))

clean_iban(iban) ==
    IF iban = None \/ iban = <<>> THEN <<>>
    ELSE Upper(Without(Without(iban, " "), "-"))

detect_local(iban_clean) ==
    IF ~StartsWith(iban_clean, FR) THEN BanqueEtrangere
    ELSE IF Len(iban_clean) < 14 THEN IbanInvalide
    ELSE LET code_banque == SubSeq(iban_clean, 5, 9)
             bank_name == all_banks_get(code_banque)
         IN  IF bank_name # None THEN bank_name ELSE BanqueFrancaise(code_banque)

detect_bank(iban) ==
    IF iban = None \/ iban = <<>> THEN NA
    ELSE IF clean_iban(iban) = <<>> THEN NA
    ELSE detect_local(clean_iban(iban))

extract_bank_code(iban) ==
    IF iban = None \/ iban = <<>> THEN unknown
    ELSE IF Len(clean_iban(iban)) < 14 \/ ~StartsWith(clean_iban(iban), FR) THEN unknown
    ELSE SubSeq(clean_iban(iban), 5, 9)

(***************************************************************************)
(* Python dicts that the code iterates over: the keys in insertion order   *)
(* and the value of each key.                                              *)
(***************************************************************************)

EmptyDict == [order |-> <<>>, at |-> <<>>]

Range(seq) == {seq[i] : i \in DOMAIN seq}

\* k in d
DictHas(d, k) == k \in Range(d.order)

\* len(d)
DictLen(d) == Len(d.order)

\* d[k] = v: a new key goes last, an existing key keeps its place.
DictSet(d, k, v) ==
    [order |-> IF DictHas(d, k) THEN d.order ELSE Append(d.order, k),
     at    |-> [x \in Range(d.order) \cup {k} |-> IF x = k THEN v ELSE d.at[x]]]

\* defaultdict(list)[k]: the list of k, created empty when k is new.
DefaultList(d, k) == IF DictHas(d, k) THEN d.at[k] ELSE <<>>

(***************************************************************************)
(* RecordParser: what both variants share                                  *)
(***************************************************************************)

Prospect == <<"Prospect">>

NonReference == <<"Non référencé">>

\* The prefix "<bank emoji> " of a stored display name (U+1F3E6 and a space).
BankEmoji == <<"U+1F3E6 ">>

\* The classification both parsers write inline (src/app.py:556-576 and
\* 680-700): the display name, the grouping key and whether the routing
\* table named the bank (counted in banks_detected).
\* InlineClassification that names the bank of an identifier too short to
\* carry a prefix.
InlineClassification_ShortNamed(iban) ==
    IF iban = <<>> THEN [banque |-> NA, bank_code |-> unknown, detected |-> 0]
    ELSE IF ~StartsWith(clean_iban(iban), FR)
    THEN [banque |-> BankEmoji \o BanqueEtrangere, bank_code |-> unknown, detected |-> 0]
    ELSE IF Len(clean_iban(iban)) < 9
    THEN [banque |-> BankEmoji \o IbanInvalide, bank_code |-> unknown, detected |-> 0]
    ELSE [banque |-> BankEmoji \o detect_local(clean_iban(iban) \o <<"0","0","0","0","0">>),
          bank_code |-> extract_bank_code(iban), detected |-> 0]

InlineClassification(iban) ==
    IF iban = <<>> THEN [banque |-> NA, bank_code |-> unknown, detected |-> 0]
    ELSE LET iban_clean == clean_iban(iban)
             bank_code == extract_bank_code(iban)
         IN  IF Len(iban_clean) < 14 \/ ~StartsWith(iban_clean, FR)
             THEN [banque |-> BankEmoji \o (IF ~StartsWith(iban_clean, FR)
                                             THEN BanqueEtrangere ELSE IbanInvalide),
                   bank_code |-> bank_code, detected |-> 0]
             ELSE IF all_banks_get(bank_code) # None
             THEN [banque |-> BankEmoji \o all_banks_get(bank_code),
                   bank_code |-> bank_code, detected |-> 1]
             ELSE [banque |-> BankEmoji \o BanqueFrancaise(bank_code),
                   bank_code |-> bank_code, detected |-> 0]

\* client_data = {...}.  The four fields that are the constant "N/A" in every
\* record (entreprise, sexe, lieu_naissance, profession) are left out.
ClientData(telephone, nom, prenom, date_naissance, email, adresse, ville, code_postal, iban, swift, now) ==
    [nom            |-> nom,
     prenom         |-> prenom,
     email          |-> email,
     telephone      |-> telephone,
     adresse        |-> adresse,
     ville          |-> ville,
     code_postal    |-> code_postal,
     banque         |-> InlineClassification(iban).banque,
     bank_code      |-> InlineClassification(iban).bank_code,
     swift          |-> swift,
     iban           |-> iban,
     date_naissance |-> date_naissance,
     statut         |-> Prospect,
     date_upload    |-> now,
     nb_appels      |-> 0,
     dernier_appel  |-> None,
     notes          |-> <<>>]

\* The outcome of one line or row: skipped (continue), or a record to store.
Skipped == [skip |-> TRUE, client |-> None, detected |-> 0]

Parsed(client, iban) ==
    [skip |-> FALSE, client |-> client, detected |-> InlineClassification(iban).detected]

(***************************************************************************)
(* RecordParser, delimited-text variant: one line of the file              *)
(***************************************************************************)

\* re.match(r'(.+?)\s*\((\d{5})\)', ville_code): the lengths k of group 1 for
\* which the rest of the pattern matches right after it.
VilleCuts(s) ==
    {k \in 1..Len(s) :
        /\ \A i \in 1..k : s[i] # "\n"
        /\ \E j \in 0..(Len(s) - k) :
              /\ \A i \in (k + 1)..(k + j) : s[i] \in Whitespace
              /\ Len(s) >= k + j + 7
              /\ s[k + j + 1] = "("
              /\ AllDigits(SubSeq(s, k + j + 2, k + j + 6))
              /\ s[k + j + 7] = ")"}

\* ville and code_postal of the "city (postal code)" field; .+? is lazy, so
\* group 1 is the shortest one.
VilleOf(ville_code) ==
    IF VilleCuts(ville_code) = {} THEN ville_code
    ELSE Strip(SubSeq(ville_code, 1, SetMin(VilleCuts(ville_code))))

CodePostalOf(ville_code) ==
    IF VilleCuts(ville_code) = {} THEN <<>>
    ELSE LET k == SetMin(VilleCuts(ville_code))
             open == SetMin({i \in (k + 1)..Len(ville_code) : ville_code[i] = "("})
         IN  SubSeq(ville_code, open + 1, open + 5)

\* parts[i].strip() if len(parts) > i else ''   (i counted from 0)
PartOr(parts, i) == IF Len(parts) > i THEN Strip(parts[i + 1]) ELSE <<>>

\* The body of the loop of load_clients_from_pipe_file for one line.
ParsePipeLine(line, now) ==
    IF Strip(line) = <<>> THEN Skipped
    ELSE LET parts == Split(line, "|")
         IN  IF Len(parts) < 7 THEN Skipped
             ELSE LET telephone == normalize_phone(Strip(parts[1]))
                      nom_complet == PartOr(parts, 1)
                      nom_parts == SplitOnce(nom_complet, " ")
                      ville_code == PartOr(parts, 5)
                      iban == PartOr(parts, 6)
                  IN  IF telephone = None THEN Skipped
                      ELSE Parsed(
                             ClientData(telephone,
                                        IF Len(nom_parts) = 2 THEN nom_parts[1] ELSE nom_complet,
                                        IF Len(nom_parts) = 2 THEN nom_parts[2] ELSE <<>>,
                                        PartOr(parts, 2), PartOr(parts, 3), PartOr(parts, 4),
                                        VilleOf(ville_code), CodePostalOf(ville_code),
                                        iban, PartOr(parts, 7), now),
                             iban)

(***************************************************************************)
(* RecordParser, spreadsheet variant: the header row and one data row      *)
(***************************************************************************)


\* The if/elif chain of the header loop: the semantic column of one header,
\* or "" when no branch takes it.
ColumnOf(header) ==
    LET h == Strip(Lower(header))
        tel_ == <<"t","e","l">>
        phone_ == <<"p","h","o","n","e">>
        nom_ == <<"n","o","m">>
        prenom_ == <<"p","r","e","n","o","m">>
        prenom_accent_ == <<"p","r","é","n","o","m">>
        naissance_ == <<"n","a","i","s","s","a","n","c","e">>
        birth_ == <<"b","i","r","t","h">>
        email_ == <<"e","m","a","i","l">>
        mail_ == <<"m","a","i","l">>
        adresse_ == <<"a","d","r","e","s","s","e">>
        address_ == <<"a","d","d","r","e","s","s">>
        ville_ == <<"v","i","l","l","e">>
        city_ == <<"c","i","t","y">>
        code_ == <<"c","o","d","e">>
        postal_ == <<"p","o","s","t","a","l">>
        iban_ == <<"i","b","a","n">>
        swift_ == <<"s","w","i","f","t">>
        bic_ == <<"b","i","c">>
    IN  IF Contains(h, tel_) \/ Contains(h, phone_) THEN "telephone"
        ELSE IF Contains(h, nom_) /\ ~Contains(h, prenom_) THEN "nom"
        ELSE IF Contains(h, prenom_) \/ Contains(h, prenom_accent_) THEN "prenom"
        ELSE IF Contains(h, naissance_) \/ Contains(h, birth_) THEN "date_naissance"
        ELSE IF Contains(h, email_) \/ Contains(h, mail_) THEN "email"
        ELSE IF Contains(h, adresse_) \/ Contains(h, address_) THEN "adresse"
        ELSE IF Contains(h, ville_) \/ Contains(h, city_) THEN "ville"
        ELSE IF Contains(h, code_) /\ Contains(h, postal_) THEN "code_postal"
        ELSE IF Contains(h, iban_) THEN "iban"
        ELSE IF Contains(h, swift_) \/ Contains(h, bic_) THEN "swift"
        ELSE ""

\* col_mapping after the header loop: each semantic column with the index
\* (from 0) of the last header cell assigned to it; None and '' cells are
\* passed over.
ColMapping(first_row) ==
    LET named == {i \in DOMAIN first_row :
                     /\ first_row[i] # None
                     /\ first_row[i] # <<>>
                     /\ ColumnOf(first_row[i]) # ""}
        keys == {ColumnOf(first_row[i]) : i \in named}
    IN  [key \in keys |-> SetMax({i \in named : ColumnOf(first_row[i]) = key}) - 1]

\* get_cell(key)
GetCell(col_mapping, row, key) ==
    IF key \in DOMAIN col_mapping /\ col_mapping[key] < Len(row)
    THEN IF row[col_mapping[key] + 1] # None THEN Strip(row[col_mapping[key] + 1]) ELSE <<>>
    ELSE <<>>

\* The body of the loop of load_clients_from_excel for one data row.
ParseExcelRow(col_mapping, row, now) ==
    IF row = <<>> \/ \A i \in DOMAIN row : row[i] = None \/ Strip(row[i]) = <<>>
    THEN Skipped
    ELSE LET telephone == normalize_phone(GetCell(col_mapping, row, "telephone"))
             nom == GetCell(col_mapping, row, "nom")
             prenom == GetCell(col_mapping, row, "prenom")
             joined == prenom = <<>> /\ Contains(nom, <<" ">>)
             iban == GetCell(col_mapping, row, "iban")
         IN  IF telephone = None THEN Skipped
             ELSE Parsed(
                    ClientData(telephone,
                               IF joined THEN SplitOnce(nom, " ")[1] ELSE nom,
                               IF joined THEN SplitOnce(nom, " ")[2] ELSE prenom,
                               GetCell(col_mapping, row, "date_naissance"),
                               GetCell(col_mapping, row, "email"),
                               GetCell(col_mapping, row, "adresse"),
                               GetCell(col_mapping, row, "ville"),
                               GetCell(col_mapping, row, "code_postal"),
                               iban, GetCell(col_mapping, row, "swift"), now),
                    iban)

(***************************************************************************)
(* ClientStore: the three module globals of src/app.py:428-430, and the    *)
(* last request served with its response; the calls list that rate_limit   *)
(* keeps for send_message (src/app.py:107).                                *)
(***************************************************************************)

VARIABLES
    clients_database,   \* dict: canonical phone -> client record
    clients_by_bank,    \* defaultdict(list): bank_code -> list of phones
    upload_stats,       \* dict of the aggregate statistics
    last,               \* the last request served alone: [op, arg, status, ret]
    th,                 \* the request each worker thread is serving, and where
    boot,               \* the upload that filled the store before the threads start
    limiter             \* the rate limiter of send_message, the clock and the sends made

vars == <<clients_database, clients_by_bank, upload_stats, last, th, boot, limiter>>

InitialStats ==
    [total_clients |-> 0, last_upload |-> None, filename |-> None, banks_detected |-> 0]

\* The loop state of an ingestion: the two globals it fills and its two
\* local counters.
IngestStart ==
    [db |-> EmptyDict, by_bank |-> EmptyDict, loaded_count |-> 0, banks_detected |-> 0]

\* clients_by_bank[bank_code].append(telephone)
AppendToBank(by_bank, bank_code, telephone) ==
    DictSet(by_bank, bank_code, Append(DefaultList(by_bank, bank_code), telephone))

\* StoreParsed with the first row of a phone kept instead of the last.
StoreParsed_FirstWins(st, parsed) ==
    IF parsed.skip THEN st
    ELSE [db             |-> IF DictHas(st.db, parsed.client.telephone) THEN st.db
                             ELSE DictSet(st.db, parsed.client.telephone, parsed.client),
          by_bank        |-> AppendToBank(st.by_bank, parsed.client.bank_code,
                                          parsed.client.telephone),
          loaded_count   |-> st.loaded_count + 1,
          banks_detected |-> st.banks_detected + parsed.detected]

\* The tail of the loop body (src/app.py:603-606, 726-729): store the record
\* of a line that was not skipped, file its phone, count it.
StoreParsed(st, parsed) ==
    IF parsed.skip THEN st
    ELSE [db             |-> DictSet(st.db, parsed.client.telephone, parsed.client),
          by_bank        |-> AppendToBank(st.by_bank, parsed.client.bank_code,
                                          parsed.client.telephone),
          loaded_count   |-> st.loaded_count + 1,
          banks_detected |-> st.banks_detected + parsed.detected]

\* The whole loop over the parsed lines or rows, in order.
RECURSIVE IngestAll(_, _)
IngestAll(st, parsed_rows) ==
    IF parsed_rows = <<>> THEN st
    ELSE IngestAll(StoreParsed(st, Head(parsed_rows)), Tail(parsed_rows))

\* The three assignments to upload_stats after the loop.
StatsAfter(stats, st, now) ==
    [stats EXCEPT !.total_clients = DictLen(st.db),
                  !.last_upload = now,
                  !.banks_detected = st.banks_detected]

create_unknown_client(phone_number) ==
    [nom            |-> <<"I","N","C","O","N","N","U">>,
     prenom         |-> <<"C","L","I","E","N","T">>,
     email          |-> NA,
     telephone      |-> phone_number,
     adresse        |-> NA,
     ville          |-> NA,
     code_postal    |-> NA,
     banque         |-> NA,
     bank_code      |-> unknown,
     swift          |-> NA,
     iban           |-> NA,
     date_naissance |-> NA,
     statut         |-> NonReference,
     date_upload    |-> NA,
     nb_appels      |-> 0,
     dernier_appel  |-> None,
     notes          |-> <<>>]

\* RecordCall without the store of dernier_appel.
RecordCall_NoStamp(db, key, now) ==
    [db EXCEPT !.at[key].nb_appels = @ + 1]

\* The two stores of the hit branch of get_client_info on the record at key.
RecordCall(db, key, now) ==
    [db EXCEPT !.at[key].nb_appels = @ + 1, !.at[key].dernier_appel = now]

\* get_client_info that files the placeholder of a well-formed phone it did
\* not find.
get_client_info_Inserting(db, phone_number, now) ==
    IF phone_number = None \/ phone_number = <<>>
    THEN [db |-> db, ret |-> create_unknown_client(phone_number)]
    ELSE LET normalized == normalize_phone(phone_number)
         IN  IF normalized # None /\ DictHas(db, normalized)
             THEN [db |-> RecordCall(db, normalized, now), ret |-> db.at[normalized]]
             ELSE [db |-> IF normalized = None THEN db
                          ELSE DictSet(db, normalized, create_unknown_client(phone_number)),
                   ret |-> create_unknown_client(phone_number)]

\* get_client_info(phone_number): the store it leaves and the record it
\* returns (the copy is taken before the two stores).
get_client_info(db, phone_number, now) ==
    IF phone_number = None \/ phone_number = <<>>
    THEN [db |-> db, ret |-> create_unknown_client(phone_number)]
    ELSE LET normalized == normalize_phone(phone_number)
         IN  IF normalized # None /\ DictHas(db, normalized)
             THEN [db |-> RecordCall(db, normalized, now), ret |-> db.at[normalized]]
             ELSE [db |-> db, ret |-> create_unknown_client(phone_number)]

(***************************************************************************)
(* Inputs                                                                  *)
(***************************************************************************)

\* The longest file or sheet, in lines or data rows.
MaxRows == 2

\* The most calls recorded in the store, all clients together.
MaxCalls == 2

\* The values of datetime.now().strftime(...): the time of an upload, and
\* two distinct times of a call.
UploadTimes == {<<"t0">>}

CallTimes == {<<"t1">>, <<"t2">>}

\* 0611111111|Al Ba|1/1/70|a@b|1 r|Pa (75001)|FR7630003000000|SG   (a first phone, an account of bank 30003)
Line_A ==
    <<"0","6","1","1","1","1","1","1","1","1","|","A","l"," ","B","a","|","1","/","1","/","7","0","|","a","@","b","|","1"," ","r","|","P","a"," ","(","7","5","0","0","1",")","|","F","R","7","6","3","0","0","0","3","0","0","0","0","0","0","|","S","G">>

\* +33 6 11 11 11 11|Cy|2/2/80|c@d|2 r|Ly|fr76 3000 4000 0000|   (the same phone in the +33 shape, an account of bank 30004)
Line_B ==
    <<"+","3","3"," ","6"," ","1","1"," ","1","1"," ","1","1"," ","1","1","|","C","y","|","2","/","2","/","8","0","|","c","@","d","|","2"," ","r","|","L","y","|","f","r","7","6"," ","3","0","0","0"," ","4","0","0","0"," ","0","0","0","0","|">>

\* 0622222222|Ed Fa|3/3/90|e@f|3 r|Ni (06000)|DE8937040044|   (a second phone, a foreign account)
Line_C ==
    <<"0","6","2","2","2","2","2","2","2","2","|","E","d"," ","F","a","|","3","/","3","/","9","0","|","e","@","f","|","3"," ","r","|","N","i"," ","(","0","6","0","0","0",")","|","D","E","8","9","3","7","0","4","0","0","4","4","|">>

\* 12345|Gi|4/4/99|g@h|4 r|Bo|FR7630003000000|   (a phone that does not normalise)
Line_D ==
    <<"1","2","3","4","5","|","G","i","|","4","/","4","/","9","9","|","g","@","h","|","4"," ","r","|","B","o","|","F","R","7","6","3","0","0","0","3","0","0","0","0","0","0","|">>

LinePool == {Line_A, Line_B, Line_C, Line_D}

\* All sequences of at most n elements of S.
SeqsUpTo(S, n) == UNION {[1..k -> S] : k \in 0..n}

\* The uploaded text files: at most MaxRows lines of the pool, each ended
\* by a newline.
TextFiles ==
    {Join(ls, <<"\n">>) \o (IF ls = <<>> THEN <<>> ELSE <<"\n">>) : ls \in SeqsUpTo(LinePool, MaxRows)}

\* Header rows: plain headers, and the same columns accented, reordered and
\* with a cell that names no column.
Header_1 ==
    <<<<"T","e","l">>, <<"N","o","m">>, <<"I","B","A","N">>>>

Header_2 ==
    <<<<"I","B","A","N">>, <<"N","o","t","e">>, <<"T","é","l","é","p","h","o","n","e">>, <<"N","O","M">>, <<" ","P","r","e","n","o","m">>>>

\* Data rows, in the column order of Header_1; RowFor puts them in the
\* order of the sheet's header.  [tel, nom, prenom, iban]
\* a first phone, an account of bank 30003 cut short to 13 characters, both
\* names in the name cell
Row_A ==
    [tel |-> <<"0","6","1","1","1","1","1","1","1","1">>, nom |-> <<"A","l"," ","B","a">>, prenom |-> None, iban |-> <<"F","R","7","6","3","0","0","0","3","0","0","0","0">>]

\* the same phone, an account of a bank the table does not name, a last name
\* of two words and a first name
Row_B ==
    [tel |-> <<"3","3","6","1","1","1","1","1","1","1","1">>, nom |-> <<"C","y"," ","D","i">>, prenom |-> <<"D","o">>, iban |-> <<"F","R","7","6"," ","9","9","9","9"," ","9","0","0","0"," ","0","0","0","0">>]

\* a second phone, no account
Row_C ==
    [tel |-> <<"0","6"," ","2","2"," ","2","2"," ","2","2"," ","2","2">>, nom |-> <<"E","d">>, prenom |-> None, iban |-> None]

\* an empty row
Row_E ==
    [tel |-> None, nom |-> <<" "," ">>, prenom |-> None, iban |-> None]

RowPool == {Row_A, Row_B, Row_C, Row_E}

\* The cells of a data row under a header row.
RowFor(header, r) ==
    IF header = Header_1 THEN <<r.tel, r.nom, r.iban>>
    ELSE <<r.iban, None, r.tel, r.nom, r.prenom>>

TextPayload(content) == [kind |-> "text", content |-> content, rows |-> <<>>]

Workbook(rows) == [kind |-> "workbook", content |-> <<>>, rows |-> rows]

\* A file openpyxl.load_workbook cannot read.
Corrupt == [kind |-> "corrupt", content |-> <<>>, rows |-> <<>>]

\* The uploaded workbooks: at most MaxRows data rows under the plain header,
\* and one data row under the other header.
Workbooks ==
    {Workbook(<<Header_1>> \o [i \in DOMAIN rs |-> RowFor(Header_1, rs[i])]) :
        rs \in SeqsUpTo(RowPool, MaxRows)}
    \cup {Workbook(<<Header_2, RowFor(Header_2, r)>>) : r \in RowPool}

(***************************************************************************)
(* The two loaders and the upload boundary                                 *)
(***************************************************************************)

\* PipeLoop that gives the batch up at the first line it cannot use.
PipeLoop_StopsAtBadLine(file_content, now) ==
    LET lines == Split(Strip(file_content), "\n")
        bad == {i \in DOMAIN lines : ParsePipeLine(lines[i], now).skip}
        used == IF bad = {} THEN lines ELSE SubSeq(lines, 1, SetMin(bad) - 1)
    IN  IngestAll(IngestStart, [i \in DOMAIN used |-> ParsePipeLine(used[i], now)])

\* The loop of load_clients_from_pipe_file over the lines of the file.
PipeLoop(file_content, now) ==
    LET lines == Split(Strip(file_content), "\n")
    IN  IngestAll(IngestStart, [i \in DOMAIN lines |-> ParsePipeLine(lines[i], now)])

\* The header loop and the row loop of load_clients_from_excel; rows[1] is
\* the header row.
ExcelLoop(rows, now) ==
    LET col_mapping == ColMapping(rows[1])
        data == Tail(rows)
    IN  IngestAll(IngestStart,
                  [i \in DOMAIN data |-> ParseExcelRow(col_mapping, data[i], now)])

\* The loops' results on the uploaded files, computed once.
PipeLoopTable == [c \in TextFiles, now \in UploadTimes |-> PipeLoop(c, now)]

ExcelLoopTable == [w \in Workbooks, now \in UploadTimes |-> ExcelLoop(w.rows, now)]

\* What a loader leaves when its loop has ended in the loop state st: the
\* two globals, upload_stats after its three assignments, and loaded_count.
Loaded(st, stats, now) ==
    [db |-> st.db, by_bank |-> st.by_bank, stats |-> StatsAfter(stats, st, now),
     raised |-> FALSE, ret |-> st.loaded_count]

\* load_clients_from_pipe_file(file_content)
load_clients_from_pipe_file(file_content, stats, now) ==
    Loaded(IF <<file_content, now>> \in DOMAIN PipeLoopTable THEN PipeLoopTable[file_content, now]
           ELSE PipeLoop(file_content, now),
           stats, now)

\* load_clients_from_excel(file_stream).  The two globals are reset before
\* the try block; a workbook openpyxl cannot read raises inside it and the
\* function re-raises ValueError.
load_clients_from_excel(book, stats, now) ==
    IF book.kind # "workbook"
    THEN [db |-> EmptyDict, by_bank |-> EmptyDict, stats |-> stats,
          raised |-> TRUE, ret |-> 0]
    ELSE Loaded(IF <<book, now>> \in DOMAIN ExcelLoopTable THEN ExcelLoopTable[book, now]
                ELSE ExcelLoop(book.rows, now),
                stats, now)

\* ALLOWED_EXTENSIONS with one more format.
ALLOWED_EXTENSIONS_WithPdf ==
    {<<"t","x","t">>, <<"x","l","s">>, <<"x","l","s","x">>, <<"p","d","f">>}

ALLOWED_EXTENSIONS == {<<"t","x","t">>, <<"x","l","s">>, <<"x","l","s","x">>}

AlphaNum == Range(LowerLetters) \cup Range(UpperLetters) \cup Digits

\* werkzeug's secure_filename on a name of ASCII characters: whitespace runs
\* become "_", characters outside [A-Za-z0-9_.-] are dropped, and leading
\* and trailing "." and "_" are stripped.
secure_filename(name) ==
    LET spaced == [i \in DOMAIN name |-> IF name[i] \in Whitespace THEN "_" ELSE name[i]]
        kept == SelectSeq(spaced, LAMBDA c : c \in AlphaNum \cup {"_", ".", "-"} /\ c \notin {"é", "É", "U+0663"})
        inner == {i \in DOMAIN kept : kept[i] \notin {".", "_"}}
    IN  IF inner = {} THEN <<>> ELSE SubSeq(kept, SetMin(inner), SetMax(inner))

\* filename.rsplit('.', 1)[1].lower() if '.' in filename else ''
FileExt(filename) ==
    LET dots == {i \in DOMAIN filename : filename[i] = "."}
    IN  IF dots = {} THEN <<>>
        ELSE Lower(SubSeq(filename, SetMax(dots) + 1, Len(filename)))

\* The end of upload_file once a loader has run: the error response when it
\* raised, else the filename recorded in upload_stats and the counts.
UploadResponse(loaded, filename) ==
    IF loaded.raised
    THEN [db |-> loaded.db, by_bank |-> loaded.by_bank, stats |-> loaded.stats,
          status |-> 500, ret |-> "Erreur lecture Excel"]
    ELSE [db |-> loaded.db, by_bank |-> loaded.by_bank,
          stats |-> [loaded.stats EXCEPT !.filename = filename],
          status |-> 200,
          ret |-> [clients |-> loaded.ret,
                   banks_detected |-> loaded.stats.banks_detected,
                   banks_grouped |-> DictLen(loaded.by_bank)]]

\* upload_file(): the globals it leaves and its response, for the uploaded
\* file's name and payload.
upload_file(db, by_bank, stats, name, payload, now) ==
    LET filename == secure_filename(name)
        file_ext == FileExt(filename)
    IN  IF name = <<>>
        THEN [db |-> db, by_bank |-> by_bank, stats |-> stats,
              status |-> 400, ret |-> "Aucun fichier"]
        ELSE IF file_ext \notin ALLOWED_EXTENSIONS
        THEN [db |-> db, by_bank |-> by_bank, stats |-> stats,
              status |-> 400, ret |-> "Format non supporté"]
        ELSE UploadResponse(
                 IF file_ext \in {<<"x","l","s">>, <<"x","l","s","x">>}
                 THEN load_clients_from_excel(payload, stats, now)
                 ELSE load_clients_from_pipe_file(payload.content, stats, now),
                 filename)

Name_txt == <<"a",".","t","x","t">>
Name_xlsx == <<"b"," ","c",".","X","L","S","X">>
Name_xls == <<"d",".","x","l","s">>
Name_pdf == <<"e",".","p","d","f">>
Name_noext == <<"t","x","t">>

\* The uploads: a name and the payload sent under it.
Uploads ==
    ({Name_txt} \X {TextPayload(c) : c \in TextFiles})
    \cup ({Name_xlsx} \X (Workbooks \cup {Corrupt}))
    \cup ({Name_xls} \X {Corrupt, Workbook(<<Header_1, RowFor(Header_1, Row_C)>>)})
    \cup ({Name_pdf, Name_noext, <<>>} \X {TextPayload(Line_A)})

\* The phone strings looked up: both stored phones in other shapes, a phone
\* that is never stored, a string that is no phone, and the empty string.
PhoneInputs ==
    {<<"+","3","3","6","1","1","1","1","1","1","1","1">>,
     <<"0","6",".","2","2",".","2","2",".","2","2",".","2","2">>,
     <<"0","6","9","9","9","9","9","9","9","9">>,
     <<"a","b","c">>,
     <<>>}

(***************************************************************************)
(* The handlers, one request at a time                                     *)
(***************************************************************************)

NoRequest == [op |-> "none", arg |-> None, status |-> 0, ret |-> None]

\* The worker threads of the server (app.run serves each request on its own
\* thread).
Threads == {"w1", "w2"}

\* The locals of a thread that serves no request.
Idle ==
    [pc |-> "idle", op |-> "none", arg |-> None, now |-> None, filename |-> <<>>,
     rows |-> <<>>, loaded_count |-> 0, banks_detected |-> 0,
     key |-> None, client |-> None, n |-> 0, live |-> FALSE,
     phones |-> <<>>, i |-> 0, out |-> <<>>, status |-> 0, ret |-> None]

NoUpload == [name |-> <<>>, payload |-> Corrupt, now |-> None]

\* calls = [] when the decorator is applied; the clock of time.time(), in
\* seconds since the process started, the times at which the wrapped
\* send_message has run and the times at which the wrapper has raised.
NoCalls == [calls |-> <<>>, clock |-> 0, sent |-> <<>>, refused |-> {}]

Init ==
    /\ clients_database = EmptyDict
    /\ clients_by_bank = EmptyDict
    /\ upload_stats = InitialStats
    /\ last = NoRequest
    /\ th = [t \in Threads |-> Idle]
    /\ boot = NoUpload
    /\ limiter = NoCalls

\* The globals and the response a handler leaves.
Leaves(db, by_bank, stats, response) ==
    /\ clients_database' = db
    /\ clients_by_bank' = by_bank
    /\ upload_stats' = stats
    /\ last' = response
    /\ UNCHANGED <<th, boot, limiter>>

UploadDone(up, now, r) ==
    Leaves(r.db, r.by_bank, r.stats,
           [op |-> "upload", arg |-> [name |-> up[1], payload |-> up[2], now |-> now],
            status |-> r.status, ret |-> r.ret])

\* POST /upload
Upload ==
    \E up \in Uploads, now \in UploadTimes :
        UploadDone(up, now,
                   upload_file(clients_database, clients_by_bank, upload_stats,
                               up[1], up[2], now))

\* The calls recorded in the store.
RECURSIVE SumCalls(_, _)
SumCalls(db, keys) ==
    IF keys = <<>> THEN 0 ELSE db.at[Head(keys)].nb_appels + SumCalls(db, Tail(keys))

TotalCalls(db) == SumCalls(db, db.order)

SearchDone(phone, now, r) ==
    /\ TotalCalls(r.db) <= MaxCalls
    /\ Leaves(r.db, clients_by_bank, upload_stats,
              [op |-> "search", arg |-> [phone |-> phone, now |-> now],
               status |-> 200, ret |-> r.ret])

\* GET /search/<phone> (and the telephony webhook): get_client_info
Search ==
    \E phone \in PhoneInputs, now \in CallTimes :
        SearchDone(phone, now, get_client_info(clients_database, phone, now))

\* Clear that forgets the grouping index.
Clear_KeepsIndex ==
    Leaves(EmptyDict, clients_by_bank, InitialStats,
           [op |-> "clear", arg |-> None, status |-> 200,
            ret |-> DictLen(clients_database)])

\* GET /clear
Clear ==
    Leaves(EmptyDict, EmptyDict, InitialStats,
           [op |-> "clear", arg |-> None, status |-> 200,
            ret |-> DictLen(clients_database)])

Next == Upload \/ Search \/ Clear

Spec == Init /\ [][Next]_vars

(***************************************************************************)
(* ExportGenerator: one line of the delimited-text export                  *)
(***************************************************************************)

\* "|".join([...]) of generate_bank_file and generate_all_clients_file
ExportLine(client) ==
    Join(<<client.telephone,
           client.nom \o <<" ">> \o client.prenom,
           client.date_naissance,
           client.email,
           client.adresse,
           client.ville \o <<" ", "(">> \o client.code_postal \o <<")">>,
           client.iban,
           client.swift>>,
         <<"|">>)

txt == <<"t","x","t">>

csv == <<"c","s","v">>

\* One field as csv.writer writes it (QUOTE_MINIMAL): between quotes, its
\* quotes doubled, when it holds the delimiter, a quote or a line end.
CsvField(field) ==
    IF \E i \in DOMAIN field : field[i] \in {";", "\"", "\r", "\n"}
    THEN <<"\"">> \o Join(Split(field, "\""), <<"\"", "\"">>) \o <<"\"">>
    ELSE field

\* writer.writerow(fields) with delimiter ';'
CsvRow(fields) ==
    Join([i \in DOMAIN fields |-> CsvField(fields[i])], <<";">>) \o <<"\r", "\n">>

\* The header row of the CSV exports (each name one token).
CsvHeader ==
    << <<"Telephone">>, <<"Nom">>, <<"Prenom">>, <<"Date_Naissance">>, <<"Email">>,
       <<"Adresse">>, <<"Ville">>, <<"Code_Postal">>, <<"IBAN">>, <<"SWIFT">> >>

\* The cells of a record in the CSV exports.
CsvCells(client) ==
    <<client.telephone, client.nom, client.prenom, client.date_naissance, client.email,
      client.adresse, client.ville, client.code_postal, client.iban, client.swift>>

\* The content the two generators build from the records they iterate
\* over, in order; with_bank adds the Banque column of the all-records CSV.
ExportContent(clients, format_type, with_bank) ==
    IF format_type = txt
    THEN Join([i \in DOMAIN clients |-> ExportLine(clients[i])], <<"\n">>)
    ELSE CsvRow(CsvHeader \o (IF with_bank THEN << <<"Banque">> >> ELSE <<>>))
         \o Join([i \in DOMAIN clients |->
                     CsvRow(CsvCells(clients[i])
                            \o (IF with_bank THEN <<clients[i].banque>> ELSE <<>>))],
                 <<>>)

MimeType(format_type) == IF format_type = txt THEN "text/plain" ELSE "text/csv"

\* What a generator returns: None, or the content and the MIME type (the
\* file name, which no handler reads back, is left out).
NoFile == [file |-> FALSE, content |-> <<>>, mimetype |-> ""]

FileOf(content, format_type) ==
    [file |-> TRUE, content |-> content, mimetype |-> MimeType(format_type)]

\* generate_all_clients_file(format_type)
generate_all_clients_file(db, format_type) ==
    IF format_type \in {txt, csv}
    THEN FileOf(ExportContent([i \in DOMAIN db.order |-> db.at[db.order[i]]], format_type, TRUE),
                format_type)
    ELSE NoFile

\* generate_bank_file(bank_code, format_type): the grouping index it leaves
\* (client_phones = clients_by_bank[bank_code] is a read of a defaultdict),
\* whether clients_database[phone] raised, and what it returns.
generate_bank_file(db, by_bank, bank_code, format_type) ==
    IF ~DictHas(by_bank, bank_code)
    THEN [by_bank |-> by_bank, raised |-> FALSE, result |-> NoFile]
    ELSE LET captured == DictSet(by_bank, bank_code, DefaultList(by_bank, bank_code))
             client_phones == captured.at[bank_code]
         IN  IF format_type \notin {txt, csv}
             THEN [by_bank |-> captured, raised |-> FALSE, result |-> NoFile]
             ELSE IF \E i \in DOMAIN client_phones : ~DictHas(db, client_phones[i])
             THEN [by_bank |-> captured, raised |-> TRUE, result |-> NoFile]
             ELSE [by_bank |-> captured, raised |-> FALSE,
                   result |-> FileOf(ExportContent([i \in DOMAIN client_phones |->
                                                       db.at[client_phones[i]]],
                                                   format_type, FALSE),
                                     format_type)]

\* The answer of a handler that reads the store: the grouping index it
\* leaves, the status and the body.
Answer(by_bank, status, ret) == [by_bank |-> by_bank, status |-> status, ret |-> ret]

\* download_all_clients(format_type)
download_all_clients(db, by_bank, format_type) ==
    IF format_type \notin {txt, csv} THEN Answer(by_bank, 400, "Format non supporté")
    ELSE IF ~generate_all_clients_file(db, format_type).file
    THEN Answer(by_bank, 500, "Erreur génération fichier")
    ELSE Answer(by_bank, 200, generate_all_clients_file(db, format_type))

\* What download_bank_clients answers when generate_bank_file has run.
BankFileAnswer(generated) ==
    IF generated.raised THEN Answer(generated.by_bank, 500, "KeyError")
    ELSE IF ~generated.result.file
    THEN Answer(generated.by_bank, 500, "Erreur génération fichier")
    ELSE Answer(generated.by_bank, 200, generated.result)

\* download_bank_clients without its own test of the bank.
download_bank_clients_NoRouteCheck(db, by_bank, bank_code, format_type) ==
    IF format_type \notin {txt, csv} THEN Answer(by_bank, 400, "Format non supporté")
    ELSE BankFileAnswer(generate_bank_file(db, by_bank, bank_code, format_type))

\* download_bank_clients that reads the group of the bank without testing
\* that the bank is filed.
download_bank_clients_Capturing(db, by_bank, bank_code, format_type) ==
    IF format_type \notin {txt, csv} THEN Answer(by_bank, 400, "Format non supporté")
    ELSE IF ~DictHas(by_bank, bank_code)
    THEN Answer(DictSet(by_bank, bank_code, DefaultList(by_bank, bank_code)),
                404, "Banque non trouvée")
    ELSE BankFileAnswer(generate_bank_file(db, by_bank, bank_code, format_type))

\* download_bank_clients(bank_code, format_type)
download_bank_clients(db, by_bank, bank_code, format_type) ==
    IF format_type \notin {txt, csv} THEN Answer(by_bank, 400, "Format non supporté")
    ELSE IF ~DictHas(by_bank, bank_code) THEN Answer(by_bank, 404, "Banque non trouvée")
    ELSE BankFileAnswer(generate_bank_file(db, by_bank, bank_code, format_type))

(***************************************************************************)
(* The boundaries that read the store                                      *)
(***************************************************************************)

\* list.sort(key=count, reverse=True) is stable: an item goes after the
\* items of the same or a larger count that came before it.
RECURSIVE InsertByCount(_, _)
InsertByCount(sorted, item) ==
    IF sorted = <<>> THEN <<item>>
    ELSE IF Head(sorted).count >= item.count
    THEN <<Head(sorted)>> \o InsertByCount(Tail(sorted), item)
    ELSE <<item>> \o sorted

RECURSIVE SortByCount(_)
SortByCount(items) ==
    IF items = <<>> THEN <<>>
    ELSE InsertByCount(SortByCount(SubSeq(items, 1, Len(items) - 1)), items[Len(items)])

\* iban_detector.all_banks.get(bank_code, f"Banque {bank_code}")
BankNameOr(bank_code) ==
    IF bank_code \in DOMAIN all_banks THEN <<all_banks[bank_code]>>
    ELSE <<"B","a","n","q","u","e"," ">> \o bank_code

\* bank_stats, as the home page and GET /banks build it.
bank_stats(by_bank) ==
    SortByCount([i \in DOMAIN by_bank.order |->
                    [code |-> by_bank.order[i],
                     name |-> BankNameOr(by_bank.order[i]),
                     count |-> Len(by_bank.at[by_bank.order[i]])]])

\* GET /banks
banks_list(by_bank, stats) ==
    [total_banks |-> DictLen(by_bank), total_clients |-> stats.total_clients,
     banks |-> bank_stats(by_bank)]

\* GET /: what the page is rendered from.
home(by_bank, stats) ==
    [total_clients |-> stats.total_clients, auto_detected |-> stats.banks_detected,
     last_upload |-> stats.last_upload, banks_count |-> DictLen(by_bank),
     bank_stats |-> bank_stats(by_bank)]

\* The keys of a counting dict, in the order they were first met.
RECURSIVE FirstMet(_)
FirstMet(values) ==
    IF values = <<>> THEN <<>>
    ELSE LET before == FirstMet(SubSeq(values, 1, Len(values) - 1))
         IN  IF values[Len(values)] \in Range(before) THEN before
             ELSE Append(before, values[Len(values)])

\* sorted(count.items(), key=count, reverse=True)[:10]
TopTen(values) ==
    LET keys == FirstMet(values)
        items == [i \in DOMAIN keys |->
                     [key |-> keys[i],
                      count |-> Cardinality({j \in DOMAIN values : values[j] = keys[i]})]]
    IN  SubSeq(SortByCount(items), 1, IF Len(items) < 10 THEN Len(items) ELSE 10)

\* GET /stats
stats(db, by_bank, st) ==
    [total_clients |-> DictLen(db), banks_detected |-> st.banks_detected,
     banks_grouped |-> DictLen(by_bank), last_upload |-> st.last_upload,
     filename |-> st.filename,
     top_banks |-> TopTen([i \in DOMAIN db.order |-> db.at[db.order[i]].banque]),
     top_cities |-> TopTen([i \in DOMAIN db.order |-> db.at[db.order[i]].ville])]

\* The uploads that fill the store before it is read: one phone filed under
\* two banks, two banks of one record each, one record filed twice, a bank
\* the table does not name, a workbook that cannot be read and a refused
\* file.
ReadUploads ==
    {<<Name_txt, TextPayload(Line_A \o <<"\n">> \o Line_B)>>,
     <<Name_txt, TextPayload(Line_A \o <<"\n">> \o Line_C)>>,
     <<Name_txt, TextPayload(Line_C \o <<"\n">> \o Line_C)>>,
     <<Name_xlsx, Workbook(<<Header_2, RowFor(Header_2, Row_B)>>)>>,
     <<Name_xlsx, Corrupt>>,
     <<Name_pdf, TextPayload(Line_A)>>}

\* The banks asked for: the banks the uploads file under, and one that no
\* upload files under.
BankCodes ==
    {<<"3","0","0","0","3">>, <<"3","0","0","0","4">>, <<"9","9","9","9","9">>,
     unknown, <<"1","2","3","4","5">>}

\* The format selectors asked for.
Formats == {txt, csv, <<"p","d","f">>}

\* The identifiers sent to the /iban command.
IbanCommands ==
    {<<"F","R","7","6","3","0","0","0","3","0","0","0">>,
     <<" ","D","E","8","9","3","7","0","4"," ">>,
     <<"-">>}

\* The requests that only read the store.
ReadOps == {"all", "bank", "banks", "stats", "home", "iban"}

\* POST /upload of one of the files above
Load ==
    \E up \in ReadUploads, now \in UploadTimes :
        UploadDone(up, now,
                   upload_file(clients_database, clients_by_bank, upload_stats,
                               up[1], up[2], now))

\* GET /download/all/<format_type>
DownloadAll ==
    \E format_type \in Formats :
        LET r == download_all_clients(clients_database, clients_by_bank, format_type)
        IN  Leaves(clients_database, r.by_bank, upload_stats,
                   [op |-> "all", arg |-> [format_type |-> format_type],
                    status |-> r.status, ret |-> r.ret])

\* GET /download/bank/<bank_code>/<format_type>
DownloadBank ==
    \E bank_code \in BankCodes, format_type \in Formats :
        LET r == download_bank_clients(clients_database, clients_by_bank, bank_code, format_type)
        IN  Leaves(clients_database, r.by_bank, upload_stats,
                   [op |-> "bank", arg |-> [bank_code |-> bank_code, format_type |-> format_type],
                    status |-> r.status, ret |-> r.ret])

\* GET /banks
BanksList ==
    Leaves(clients_database, clients_by_bank, upload_stats,
           [op |-> "banks", arg |-> None, status |-> 200,
            ret |-> banks_list(clients_by_bank, upload_stats)])

\* GET /stats
Stats ==
    Leaves(clients_database, clients_by_bank, upload_stats,
           [op |-> "stats", arg |-> None, status |-> 200,
            ret |-> stats(clients_database, clients_by_bank, upload_stats)])

\* GET /
Home ==
    Leaves(clients_database, clients_by_bank, upload_stats,
           [op |-> "home", arg |-> None, status |-> 200,
            ret |-> home(clients_by_bank, upload_stats)])

\* The /iban command of the messaging webhook: the classifier called on
\* the stripped text.
IbanCommand ==
    \E iban \in IbanCommands :
        Leaves(clients_database, clients_by_bank, upload_stats,
               [op |-> "iban", arg |-> [iban |-> iban], status |-> 200,
                ret |-> detect_bank(Strip(iban))])

ReadNext ==
    \/ Load
    \/ Search
    \/ Clear
    \/ DownloadAll
    \/ DownloadBank
    \/ BanksList
    \/ Stats
    \/ Home
    \/ IbanCommand

SpecRead == Init /\ [][ReadNext]_vars

(***************************************************************************)
(* The rate limiter of the outbound notifications                          *)
(***************************************************************************)

\* @rate_limit(calls_per_minute=30) on TelegramService.send_message
calls_per_minute == 30

\* The length of the window in seconds ("now - call_time < 60").
WindowSeconds == 60

\* The seconds that pass between two groups of calls, and how many times
\* they pass.
TickSeconds == 30

MaxTicks == 2

\* The wrapper that lets a call through when calls_per_minute calls are
\* already in the window.
rate_limit_OneMore(calls, now) ==
    LET Recent(call_time) == now - call_time < WindowSeconds
        kept == SelectSeq(calls, Recent)
    IN  IF Len(kept) > calls_per_minute
        THEN [calls |-> kept, raised |-> TRUE]
        ELSE [calls |-> Append(kept, now), raised |-> FALSE]

\* The wrapper of rate_limit, called at time now: the calls list it leaves
\* and whether it raised instead of calling the wrapped function.
rate_limit(calls, now) ==
    LET Recent(call_time) == now - call_time < WindowSeconds
        kept == SelectSeq(calls, Recent)
    IN  IF Len(kept) >= calls_per_minute
        THEN [calls |-> kept, raised |-> TRUE]
        ELSE [calls |-> Append(kept, now), raised |-> FALSE]

\* telegram_service.send_message(message), through the wrapper
SendMessage ==
    LET now == limiter.clock
        r == rate_limit(limiter.calls, now)
    IN  /\ limiter' = [limiter EXCEPT !.calls = r.calls,
                                      !.sent = IF r.raised THEN @ ELSE Append(@, now),
                                      !.refused = IF r.raised THEN @ \cup {now} ELSE @]
        /\ last' = [op |-> "send", arg |-> [now |-> now],
                    status |-> IF r.raised THEN 500 ELSE 200,
                    ret |-> IF r.raised THEN "Rate limit exceeded" ELSE "sent"]
        /\ UNCHANGED <<clients_database, clients_by_bank, upload_stats, th, boot>>

\* Time passes between two calls.
Tick ==
    /\ limiter.clock < MaxTicks * TickSeconds
    /\ limiter' = [limiter EXCEPT !.clock = @ + TickSeconds]
    /\ UNCHANGED <<clients_database, clients_by_bank, upload_stats, last, th, boot>>

LimitNext == SendMessage \/ Tick

SpecLimit == Init /\ [][LimitNext]_vars

(***************************************************************************)
(* The handlers run by concurrent threads.  No handler takes a lock: a     *)
(* thread may be preempted between two statements, and between the read    *)
(* and the write of  record["nb_appels"] += 1.  A step below is one        *)
(* statement's access to the globals, with the local statements after it.  *)
(*                                                                         *)
(* Object identity.  A thread that holds a reference to a record or to a   *)
(* group's list sees the object the global dict held when it took it.      *)
(* While that object is still the one in the global (live), the model reads*)
(* it there; when another thread rebinds the global or replaces the record,*)
(* the holder keeps the abandoned object: a list is then frozen in phones, *)
(* and a write to an abandoned record is seen by nobody.                   *)
(***************************************************************************)

\* The uploads, lookups and exports the threads are asked for.
ConcUploads ==
    {<<Name_txt, TextPayload(Line_A \o <<"\n">>)>>,
     <<Name_txt, TextPayload(Line_C \o <<"\n">>)>>,
     <<Name_xlsx, Workbook(<<Header_1, RowFor(Header_1, Row_B)>>)>>,
     <<Name_xlsx, Corrupt>>}

ConcPhones ==
    {<<"+","3","3","6","1","1","1","1","1","1","1","1">>,
     <<"0","6","9","9","9","9","9","9","9","9">>}

ConcBankCodes == {<<"3","0","0","0","3">>, <<"3","0","0","0","4">>}

\* The store the threads find: empty, or filled by an earlier upload of the
\* lines Line_A and Line_C that was served alone.
BootUploads ==
    {NoUpload,
     [name |-> Name_txt,
      payload |-> TextPayload(Line_A \o <<"\n">> \o Line_C \o <<"\n">>),
      now |-> <<"t0">>]}

Booted(b, r) ==
    /\ clients_database = r.db
    /\ clients_by_bank = r.by_bank
    /\ upload_stats = r.stats
    /\ last = NoRequest
    /\ th = [t \in Threads |-> Idle]
    /\ boot = b
    /\ limiter = NoCalls

ConcInit ==
    \E b \in BootUploads :
        Booted(b, upload_file(EmptyDict, EmptyDict, InitialStats, b.name, b.payload, b.now))

\* Thread t goes on with the locals l; every other thread u with others[u].
Continue(t, l, others) ==
    th' = [u \in Threads |-> IF u = t THEN l ELSE others[u]]

Finished(l, status, ret) ==
    [l EXCEPT !.pc = "done", !.status = status, !.ret = ret, !.live = FALSE]

\* The other threads' references after clients_database was rebound, after
\* the record of key was replaced, and after clients_by_bank was rebound.
AfterDbRebound ==
    [u \in Threads |-> IF th[u].op = "search" THEN [th[u] EXCEPT !.live = FALSE] ELSE th[u]]

AfterRecordReplaced(key) ==
    [u \in Threads |->
        IF th[u].op = "search" /\ th[u].key = key THEN [th[u] EXCEPT !.live = FALSE]
        ELSE th[u]]

AfterBankRebound ==
    [u \in Threads |->
        IF th[u].op = "bank" /\ th[u].live
        THEN [th[u] EXCEPT !.live = FALSE, !.phones = clients_by_bank.at[th[u].key]]
        ELSE th[u]]

KeyError == "KeyError"

---------------------------------------------------------------------------
\* POST /upload: upload_file up to the call of a loader.
StartUpload(t) ==
    /\ th[t].pc = "idle"
    /\ \E up \in ConcUploads, now \in UploadTimes :
           Continue(t,
               IF up[1] = <<>> \/ FileExt(secure_filename(up[1])) \notin ALLOWED_EXTENSIONS
               THEN Finished([th[t] EXCEPT !.op = "upload"], 400, "Format non supporté")
               ELSE [th[t] EXCEPT !.pc = "reset_db", !.op = "upload",
                                  !.arg = [name |-> up[1], payload |-> up[2], now |-> now],
                                  !.now = now,
                                  !.filename = secure_filename(up[1])],
               th)
    /\ UNCHANGED <<clients_database, clients_by_bank, upload_stats, last, boot, limiter>>

\* clients_database = {}
ResetDb(t) ==
    /\ th[t].pc = "reset_db"
    /\ clients_database' = EmptyDict
    /\ Continue(t, [th[t] EXCEPT !.pc = "reset_bank"], AfterDbRebound)
    /\ UNCHANGED <<clients_by_bank, upload_stats, last, boot, limiter>>

\* The rows of the uploaded file as the parser reads them, in file order.
ParsedRowsOf(payload, now) ==
    IF payload.kind = "text"
    THEN LET lines == Split(Strip(payload.content), "\n")
         IN  [i \in DOMAIN lines |-> ParsePipeLine(lines[i], now)]
    ELSE LET data == Tail(payload.rows)
         IN  [i \in DOMAIN data |->
                 ParseExcelRow(ColMapping(payload.rows[1]), data[i], now)]

\* The rows a loader will store: the parsed lines or rows it does not skip.
RowsToStore(arg) ==
    SelectSeq(ParsedRowsOf(arg.payload, arg.now), LAMBDA r : ~r.skip)

\* After the second reset: the workbook is opened (a corrupt one raises, and
\* upload_file answers 500), the lines or rows are read.
Opened(l) ==
    IF l.arg.payload.kind = "corrupt"
    THEN Finished(l, 500, "Erreur lecture Excel")
    ELSE [l EXCEPT !.rows = RowsToStore(l.arg),
                   !.pc = IF RowsToStore(l.arg) = <<>> THEN "stat_total" ELSE "store"]

\* clients_by_bank = defaultdict(list)
ResetBank(t) ==
    /\ th[t].pc = "reset_bank"
    /\ clients_by_bank' = EmptyDict
    /\ Continue(t, Opened(th[t]), AfterBankRebound)
    /\ UNCHANGED <<clients_database, upload_stats, last, boot, limiter>>

\* clients_database[telephone] = client_data
StoreRow(t) ==
    /\ th[t].pc = "store"
    /\ clients_database' =
           DictSet(clients_database, th[t].rows[1].client.telephone, th[t].rows[1].client)
    /\ Continue(t, [th[t] EXCEPT !.pc = "append"],
                AfterRecordReplaced(th[t].rows[1].client.telephone))
    /\ UNCHANGED <<clients_by_bank, upload_stats, last, boot, limiter>>

\* clients_by_bank[bank_code].append(telephone); loaded_count += 1
AppendRow(t) ==
    /\ th[t].pc = "append"
    /\ clients_by_bank' =
           AppendToBank(clients_by_bank, th[t].rows[1].client.bank_code,
                        th[t].rows[1].client.telephone)
    /\ Continue(t,
           [th[t] EXCEPT !.rows = Tail(@),
                         !.loaded_count = @ + 1,
                         !.banks_detected = @ + th[t].rows[1].detected,
                         !.pc = IF Tail(th[t].rows) = <<>> THEN "stat_total" ELSE "store"],
           th)
    /\ UNCHANGED <<clients_database, upload_stats, last, boot, limiter>>

\* upload_stats["total_clients"] = len(clients_database)
StatTotal(t) ==
    /\ th[t].pc = "stat_total"
    /\ upload_stats' = [upload_stats EXCEPT !.total_clients = DictLen(clients_database)]
    /\ Continue(t, [th[t] EXCEPT !.pc = "stat_last"], th)
    /\ UNCHANGED <<clients_database, clients_by_bank, last, boot, limiter>>

\* upload_stats["last_upload"] = datetime.now().strftime(...)
StatLast(t) ==
    /\ th[t].pc = "stat_last"
    /\ upload_stats' = [upload_stats EXCEPT !.last_upload = th[t].now]
    /\ Continue(t, [th[t] EXCEPT !.pc = "stat_banks"], th)
    /\ UNCHANGED <<clients_database, clients_by_bank, last, boot, limiter>>

\* upload_stats["banks_detected"] = banks_detected; return loaded_count
StatBanks(t) ==
    /\ th[t].pc = "stat_banks"
    /\ upload_stats' = [upload_stats EXCEPT !.banks_detected = th[t].banks_detected]
    /\ Continue(t, [th[t] EXCEPT !.pc = "set_filename"], th)
    /\ UNCHANGED <<clients_database, clients_by_bank, last, boot, limiter>>

\* upload_stats["filename"] = filename
SetFilename(t) ==
    /\ th[t].pc = "set_filename"
    /\ upload_stats' = [upload_stats EXCEPT !.filename = th[t].filename]
    /\ Continue(t, [th[t] EXCEPT !.pc = "respond"], th)
    /\ UNCHANGED <<clients_database, clients_by_bank, last, boot, limiter>>

\* return jsonify({...})
Respond(t) ==
    /\ th[t].pc = "respond"
    /\ Continue(t,
           Finished(th[t], 200,
                    [clients |-> th[t].loaded_count,
                     banks_detected |-> upload_stats.banks_detected,
                     banks_grouped |-> DictLen(clients_by_bank)]),
           th)
    /\ UNCHANGED <<clients_database, clients_by_bank, upload_stats, last, boot, limiter>>

---------------------------------------------------------------------------
\* GET /search/<phone>: get_client_info up to the test of the store.
StartSearch(t) ==
    /\ th[t].pc = "idle"
    /\ \E phone \in ConcPhones, now \in CallTimes :
           Continue(t,
               IF normalize_phone(phone) = None
               THEN Finished([th[t] EXCEPT !.op = "search"], 200, create_unknown_client(phone))
               ELSE [th[t] EXCEPT !.pc = "g_check", !.op = "search",
                                  !.arg = [phone |-> phone, now |-> now],
                                  !.now = now,
                                  !.key = normalize_phone(phone)],
               th)
    /\ UNCHANGED <<clients_database, clients_by_bank, upload_stats, last, boot, limiter>>

\* if normalized and normalized in clients_database:
GCheck(t) ==
    /\ th[t].pc = "g_check"
    /\ Continue(t,
           IF DictHas(clients_database, th[t].key)
           THEN [th[t] EXCEPT !.pc = "g_copy"]
           ELSE Finished(th[t], 200, create_unknown_client(th[t].arg.phone)),
           th)
    /\ UNCHANGED <<clients_database, clients_by_bank, upload_stats, last, boot, limiter>>

\* client = clients_database[normalized].copy()
GCopy(t) ==
    /\ th[t].pc = "g_copy"
    /\ Continue(t,
           IF DictHas(clients_database, th[t].key)
           THEN [th[t] EXCEPT !.pc = "g_read", !.client = clients_database.at[th[t].key]]
           ELSE Finished(th[t], 500, KeyError),
           th)
    /\ UNCHANGED <<clients_database, clients_by_bank, upload_stats, last, boot, limiter>>

\* clients_database[normalized]["nb_appels"] += 1, the read
GRead(t) ==
    /\ th[t].pc = "g_read"
    /\ Continue(t,
           IF DictHas(clients_database, th[t].key)
           THEN [th[t] EXCEPT !.pc = "g_write", !.live = TRUE,
                              !.n = clients_database.at[th[t].key].nb_appels]
           ELSE Finished(th[t], 500, KeyError),
           th)
    /\ UNCHANGED <<clients_database, clients_by_bank, upload_stats, last, boot, limiter>>

\* clients_database[normalized]["nb_appels"] += 1, the write: to the record
\* that was read, which may no longer be the one in the store.
GWrite(t) ==
    /\ th[t].pc = "g_write"
    /\ clients_database' =
           IF th[t].live
           THEN [clients_database EXCEPT !.at[th[t].key].nb_appels = th[t].n + 1]
           ELSE clients_database
    /\ Continue(t, [th[t] EXCEPT !.pc = "g_stamp", !.live = FALSE], th)
    /\ UNCHANGED <<clients_by_bank, upload_stats, last, boot, limiter>>

\* clients_database[normalized]["dernier_appel"] = ...; return client
GStamp(t) ==
    /\ th[t].pc = "g_stamp"
    /\ clients_database' =
           IF DictHas(clients_database, th[t].key)
           THEN [clients_database EXCEPT !.at[th[t].key].dernier_appel = th[t].now]
           ELSE clients_database
    /\ Continue(t,
           IF DictHas(clients_database, th[t].key)
           THEN Finished(th[t], 200, th[t].client)
           ELSE Finished(th[t], 500, KeyError),
           th)
    /\ UNCHANGED <<clients_by_bank, upload_stats, last, boot, limiter>>

---------------------------------------------------------------------------
\* GET /download/bank/<bank_code>/txt
StartBank(t) ==
    /\ th[t].pc = "idle"
    /\ \E code \in ConcBankCodes :
           Continue(t, [th[t] EXCEPT !.pc = "b_route", !.op = "bank", !.arg = code, !.key = code],
                    th)
    /\ UNCHANGED <<clients_database, clients_by_bank, upload_stats, last, boot, limiter>>

\* download_bank_clients: if bank_code not in clients_by_bank: 404
BRoute(t) ==
    /\ th[t].pc = "b_route"
    /\ Continue(t,
           IF DictHas(clients_by_bank, th[t].key)
           THEN [th[t] EXCEPT !.pc = "b_check"]
           ELSE Finished(th[t], 404, "Banque non trouvée"),
           th)
    /\ UNCHANGED <<clients_database, clients_by_bank, upload_stats, last, boot, limiter>>

\* generate_bank_file: if bank_code not in clients_by_bank: return None
BCheck(t) ==
    /\ th[t].pc = "b_check"
    /\ Continue(t,
           IF DictHas(clients_by_bank, th[t].key)
           THEN [th[t] EXCEPT !.pc = "b_capture"]
           ELSE Finished(th[t], 500, "Erreur génération fichier"),
           th)
    /\ UNCHANGED <<clients_database, clients_by_bank, upload_stats, last, boot, limiter>>

\* client_phones = clients_by_bank[bank_code]: the defaultdict makes the
\* group when the key is gone.
BCapture(t) ==
    /\ th[t].pc = "b_capture"
    /\ clients_by_bank' =
           DictSet(clients_by_bank, th[t].key, DefaultList(clients_by_bank, th[t].key))
    /\ Continue(t, [th[t] EXCEPT !.pc = "b_iter", !.live = TRUE, !.i = 0], th)
    /\ UNCHANGED <<clients_database, upload_stats, last, boot, limiter>>

\* The list a bank export iterates over.
ClientPhones(l) == IF l.live THEN clients_by_bank.at[l.key] ELSE l.phones

\* for phone in client_phones: client = clients_database[phone]; ...
BIter(t) ==
    /\ th[t].pc = "b_iter"
    /\ Continue(t,
           IF th[t].i >= Len(ClientPhones(th[t]))
           THEN Finished(th[t], 200, Join(th[t].out, <<"\n">>))
           ELSE IF DictHas(clients_database, ClientPhones(th[t])[th[t].i + 1])
           THEN [th[t] EXCEPT !.i = @ + 1,
                              !.out = Append(@, ExportLine(
                                  clients_database.at[ClientPhones(th[t])[th[t].i + 1]]))]
           ELSE Finished(th[t], 500, KeyError),
           th)
    /\ UNCHANGED <<clients_database, clients_by_bank, upload_stats, last, boot, limiter>>

---------------------------------------------------------------------------
\* GET /clear: count = len(clients_database)
StartClear(t) ==
    /\ th[t].pc = "idle"
    /\ Continue(t, [th[t] EXCEPT !.pc = "c_db", !.op = "clear",
                                 !.n = DictLen(clients_database)], th)
    /\ UNCHANGED <<clients_database, clients_by_bank, upload_stats, last, boot, limiter>>

\* clients_database = {}
ClearDb(t) ==
    /\ th[t].pc = "c_db"
    /\ clients_database' = EmptyDict
    /\ Continue(t, [th[t] EXCEPT !.pc = "c_bank"], AfterDbRebound)
    /\ UNCHANGED <<clients_by_bank, upload_stats, last, boot, limiter>>

\* clients_by_bank = defaultdict(list)
ClearBank(t) ==
    /\ th[t].pc = "c_bank"
    /\ clients_by_bank' = EmptyDict
    /\ Continue(t, [th[t] EXCEPT !.pc = "c_stats"], AfterBankRebound)
    /\ UNCHANGED <<clients_database, upload_stats, last, boot, limiter>>

\* upload_stats = {...}; return jsonify({...})
ClearStats(t) ==
    /\ th[t].pc = "c_stats"
    /\ upload_stats' = InitialStats
    /\ Continue(t, Finished(th[t], 200, th[t].n), th)
    /\ UNCHANGED <<clients_database, clients_by_bank, last, boot, limiter>>

ConcNext ==
    \E t \in Threads :
        \/ StartUpload(t) \/ ResetDb(t) \/ ResetBank(t) \/ StoreRow(t) \/ AppendRow(t)
        \/ StatTotal(t) \/ StatLast(t) \/ StatBanks(t) \/ SetFilename(t) \/ Respond(t)
        \/ StartSearch(t) \/ GCheck(t) \/ GCopy(t) \/ GRead(t) \/ GWrite(t) \/ GStamp(t)
        \/ StartBank(t) \/ BRoute(t) \/ BCheck(t) \/ BCapture(t) \/ BIter(t)
        \/ StartClear(t) \/ ClearDb(t) \/ ClearBank(t) \/ ClearStats(t)

\* Two threads, each serving one request, on a store that an upload served
\* alone may have filled.
SpecConc == ConcInit /\ [][ConcNext]_vars

(***************************************************************************)
(* The pure functions, called one at a time on inputs of every shape       *)
(***************************************************************************)

\* The five input shapes of a domestic number: the prefix written before its
\* nine digits.
Shapes == << <<"0","0","3","3">>, <<"+","3","3">> , <<"3","3">>, <<"0">>, <<>> >>

\* Nine-digit strings: two leading digits of every kind (a 0, a 3 that may
\* read as part of a prefix, another ASCII digit, a digit of another script)
\* before seven fixed ones.
NineDigits ==
    {<<a, b, "9", "2", "9", "0", "6", "0", "6">> : a, b \in {"0", "3", "6", "U+0663"}}

Separators == {" ", ".", "-", "(", ")"}

\* s with the character sep written after each of its first k characters
\* for k in at (before it for k = 0).
RECURSIVE Interleave(_, _, _, _)
Interleave(s, sep, at, k) ==
    (IF k \in at THEN <<sep>> ELSE <<>>)
    \o (IF k >= Len(s) THEN <<>> ELSE <<s[k + 1]>> \o Interleave(s, sep, at, k + 1))

\* The phone strings normalize_phone is called with: a nine-digit string in
\* one of the five shapes, bare or with one separator written at some of
\* three places (before it, after its second and after its ninth character,
\* which is the end of a bare number)...
ShapedPhones ==
    {[phone |-> Shapes[i] \o d, d |-> d, shape |-> i] :
        d \in NineDigits, i \in DOMAIN Shapes}
    \cup {[phone |-> Interleave(Shapes[i] \o d, sep, at, 0), d |-> d, shape |-> i] :
             d \in NineDigits, i \in DOMAIN Shapes, sep \in Separators,
             at \in (SUBSET {0, 2, 9}) \ {{}}}

\* ... and strings of no shape: the absent and the empty phone, letters, too
\* few digits, a "+" inside or repeated, a trunk 0 in parentheses, and a
\* canonical number followed by a line end.
OtherPhones ==
    {[phone |-> p, d |-> None, shape |-> 0] :
        p \in {None, <<>>,
               <<"a","b","c">>,
               <<"1","2","3","4","5">>,
               <<"0","6","+","6","9","2","9","0","6","0","6">>,
               <<"+","3","3","+","6","6","9","2","9","0","6","0","6">>,
               <<"6","+","6","9","2","9","0","6","0","6">>,
               <<"+","3","3","(","0",")","6","6","9","2","9","0","6","0","6">>,
               <<"0","6","6","9","2","9","0","6","0","6","\n">>}}

\* One call of a function on a fresh process: what it was given and what it
\* returned.
Called(op, arg, ret) ==
    /\ last.op = "none"
    /\ last' = [op |-> op, arg |-> arg, status |-> 200, ret |-> ret]
    /\ UNCHANGED <<clients_database, clients_by_bank, upload_stats, th, boot, limiter>>

\* normalize_phone(phone)
Normalize ==
    \E arg \in ShapedPhones \cup OtherPhones :
        Called("normalize_phone", arg, normalize_phone(arg.phone))

\* Account identifiers, upper-case and without separators: none, foreign
\* ones, French ones too short (9 and 13 characters), and French ones of 16
\* characters with every prefix of the routing table, a prefix of digits the
\* table does not have and a prefix that is not a number.
IbanBases ==
    {<<>>,
     <<"D","E","8","9","3","7","0","4","0","0","4","4","0","5","3","2">>,
     <<"G","B","3","3">>,
     <<"F","R","7","6","3","0","0","0","4">>,
     <<"F","R","7","6","3","0","0","0","4","0","0","0","0">>}
    \cup {<<"F","R","7","6">> \o code \o <<"0","0","0","0","0","1","2">> :
             code \in (DOMAIN all_banks)
                       \cup {<<"9","9","9","9","9">>, <<"3","0","0","0","A">>}}

\* The ways one identifier is written: as it is, in lower case, in groups of
\* four after a leading space, in groups of four with hyphens, and both in
\* lower case and in groups.
IbanWritings(base) ==
    {base, Lower(base),
     Interleave(base, " ", {0, 4, 8, 12, 16}, 0),
     Interleave(base, "-", {4, 8, 12, 16}, 0),
     Interleave(Lower(base), " ", {4, 8, 12, 16}, 0)}

\* iban_detector.detect_bank(iban) and iban_detector.extract_bank_code(iban)
Classify ==
    \/ Called("detect_bank", [iban |-> None, base |-> <<>>],
              <<detect_bank(None), extract_bank_code(None)>>)
    \/ \E base \in IbanBases : \E iban \in IbanWritings(base) :
           Called("detect_bank", [iban |-> iban, base |-> base],
                  <<detect_bank(iban), extract_bank_code(iban)>>)

\* Lines of a text file, good and bad: Line_A, Line_B (the phone of Line_A
\* again) and Line_C cut after its seventh field are well formed; an empty
\* line, a line of blanks, Line_C cut after its sixth field and Line_D (a
\* phone that does not normalise) are not.
MixedLines ==
    {Line_A, Line_B,
     Join(SubSeq(Split(Line_C, "|"), 1, 7), <<"|">>),
     <<>>, <<" ", "\t">>,
     Join(SubSeq(Split(Line_C, "|"), 1, 6), <<"|">>),
     Line_D}

\* Text files of three such lines.
MixedTexts == {Join(ls, <<"\n">>) \o <<"\n">> : ls \in [1..3 -> MixedLines]}

\* POST /upload of a text file of good and bad lines, on a fresh process.
LoadText ==
    /\ last.op = "none"
    /\ \E c \in MixedTexts :
           UploadDone(<<Name_txt, TextPayload(c)>>, <<"t0">>,
                      upload_file(clients_database, clients_by_bank, upload_stats,
                                  Name_txt, TextPayload(c), <<"t0">>))

\* Header cells of a sheet: the last-name and first-name headers in their
\* spellings and letter cases, other columns, a cell that names no column
\* and an empty cell.
HeaderCells ==
    {<<"N","o","m">>, <<"P","r","e","n","o","m">>, <<"P","r","é","n","o","m">>,
     <<"P","R","É","N","O","M">>, <<"N","o","m"," ","P","r","e","n","o","m">>,
     <<"T","é","l","é","p","h","o","n","e">>, <<"I","B","A","N">>,
     <<"N","o","t","e">>, None}

\* The header rows read: at most three such cells.
HeaderRows == UNION {[1..n -> HeaderCells] : n \in 1..3}

\* The header loop of load_clients_from_excel on one first row: the branch
\* each cell takes, and col_mapping after the loop.
MapHeaders ==
    \E first_row \in HeaderRows :
        Called("col_mapping", [first_row |-> first_row],
               [cols |-> [i \in DOMAIN first_row |->
                             IF first_row[i] = None \/ first_row[i] = <<>> THEN ""
                             ELSE ColumnOf(first_row[i])],
                mapping |-> ColMapping(first_row)])

\* Identifiers made of separators only.
SeparatorsOnly == {<<"-">>, <<"-", " ", "-">>, <<" ", " ">>}

\* The account identifiers a parser reads in a one-record file: every
\* writing of every identifier, and the identifiers of separators only.
ParsedIbans == (UNION {IbanWritings(base) : base \in IbanBases}) \cup SeparatorsOnly

\* 0611111111|Al Ba|1/1/70|a@b|1 r|Pa|<iban>|
LineWithIban(iban) ==
    <<"0","6","1","1","1","1","1","1","1","1","|","A","l"," ","B","a","|","1","/","1","/","7","0","|","a","@","b","|","1"," ","r","|","P","a","|">> \o iban \o <<"|">>

\* The row (0611111111, Al Ba, <iban>) under the header Tel, Nom, IBAN.
BookWithIban(iban) ==
    Workbook(<<Header_1, <<Row_A.tel, Row_A.nom, iban>>>>)

\* POST /upload of a one-record text file or workbook, on a fresh process.
LoadIban ==
    /\ last.op = "none"
    /\ \E iban \in ParsedIbans :
           \E up \in {<<Name_txt, TextPayload(LineWithIban(iban))>>,
                      <<Name_xlsx, BookWithIban(iban)>>} :
               UploadDone(up, <<"t0">>,
                          upload_file(clients_database, clients_by_bank, upload_stats,
                                      up[1], up[2], <<"t0">>))

PureNext == Normalize \/ Classify \/ LoadText \/ MapHeaders \/ LoadIban

\* The functions of the core called on their own, on an empty store.
SpecPure == Init /\ [][PureNext]_vars

(***************************************************************************)
(* Properties of the store, one request at a time                          *)
(***************************************************************************)

\* The last request was an upload that a loader completed.
Ingested == last.op = "upload" /\ last.status = 200

\* The accepted rows (those not skipped) of the last upload.
AcceptedRows == RowsToStore(last.arg)

RECURSIVE SumSeq(_)
SumSeq(ns) == IF ns = <<>> THEN 0 ELSE Head(ns) + SumSeq(Tail(ns))

\* The phones filed in the grouping index, all groups together.
FiledCount ==
    SumSeq([i \in DOMAIN clients_by_bank.order |->
               Len(clients_by_bank.at[clients_by_bank.order[i]])])

\* The places <<bank_code, position>> where a phone is filed.
FiledAt(phone) ==
    {pl \in UNION {{code} \X DOMAIN clients_by_bank.at[code] :
                      code \in Range(clients_by_bank.order)} :
        clients_by_bank.at[pl[1]][pl[2]] = phone}

\* C1 (as claimed): after an ingestion every phone filed in the grouping
\* index is a key of the store, and the lengths of the groups add up to the
\* number of records.
C1_IndexCountsStore ==
    Ingested =>
        /\ \A code \in Range(clients_by_bank.order) :
               \A i \in DOMAIN clients_by_bank.at[code] :
                   DictHas(clients_database, clients_by_bank.at[code][i])
        /\ FiledCount = DictLen(clients_database)

\* C2 (as claimed): in every state each stored phone is filed exactly once,
\* under the bank_code of its record, and nothing else is filed.
C2_FiledOnceUnderOwnBank ==
    /\ \A phone \in Range(clients_database.order) :
           /\ Cardinality(FiledAt(phone)) = 1
           /\ \A pl \in FiledAt(phone) : pl[1] = clients_database.at[phone].bank_code
    /\ \A code \in Range(clients_by_bank.order) :
           \A i \in DOMAIN clients_by_bank.at[code] :
               DictHas(clients_database, clients_by_bank.at[code][i])

\* C3 (as claimed): an upload that fails at batch level leaves the store as
\* it was before the upload.
C3_FailedUploadKeepsStore ==
    [][(last'.op = "upload" /\ last'.status = 500) =>
          /\ clients_database' = clients_database
          /\ clients_by_bank' = clients_by_bank]_vars

\* C4: after a successful ingestion the keys of the store are exactly the
\* phones of the accepted rows of that upload, and the record of each phone
\* is the one built from the last accepted row with that phone.
C4_StoreIsLastRowPerPhone ==
    Ingested =>
        /\ Range(clients_database.order) =
               {AcceptedRows[i].client.telephone : i \in DOMAIN AcceptedRows}
        /\ Len(clients_database.order) = Cardinality(Range(clients_database.order))
        /\ DOMAIN clients_database.at = Range(clients_database.order)
        /\ \A i \in DOMAIN AcceptedRows :
               (\A j \in DOMAIN AcceptedRows :
                    j > i => AcceptedRows[j].client.telephone # AcceptedRows[i].client.telephone)
               => clients_database.at[AcceptedRows[i].client.telephone] = AcceptedRows[i].client

\* C4 witness: two accepted rows of the upload share a phone and differ, and
\* the store holds the later one.
C4_Witness ==
    /\ Ingested
    /\ \E i, j \in DOMAIN AcceptedRows :
           /\ i < j
           /\ AcceptedRows[i].client.telephone = AcceptedRows[j].client.telephone
           /\ AcceptedRows[i].client # AcceptedRows[j].client
           /\ clients_database.at[AcceptedRows[j].client.telephone] = AcceptedRows[j].client

\* C5 (as claimed): the count an ingestion returns is the number of records
\* in the store when it finishes.
C5_ReturnsRecordCount ==
    Ingested => last.ret.clients = DictLen(clients_database)

\* The canonical phone a lookup is about, or None.
LookedUp(arg) == normalize_phone(arg.phone)

\* The lookup of arg finds a record in the store db.
IsHit(db, arg) ==
    /\ arg.phone # <<>>
    /\ LookedUp(arg) # None
    /\ DictHas(db, LookedUp(arg))

CountedFields == {"nb_appels", "dernier_appel"}

\* C6: a lookup that finds a record raises the stored nb_appels of that
\* record by exactly 1 and sets its dernier_appel to the time of the call; it
\* changes no other field of it, no other record, not the key order and not
\* the grouping index.  No lookup lowers any nb_appels.
C6_HitCountsOneCall ==
    [][last'.op = "search" =>
          /\ \A k \in Range(clients_database.order) :
                 /\ DictHas(clients_database', k)
                 /\ clients_database'.at[k].nb_appels >= clients_database.at[k].nb_appels
          /\ IsHit(clients_database, last'.arg) =>
                 /\ clients_database'.order = clients_database.order
                 /\ clients_database'.at[LookedUp(last'.arg)].nb_appels =
                        clients_database.at[LookedUp(last'.arg)].nb_appels + 1
                 /\ clients_database'.at[LookedUp(last'.arg)].dernier_appel = last'.arg.now
                 /\ \A f \in DOMAIN clients_database.at[LookedUp(last'.arg)] \ CountedFields :
                        clients_database'.at[LookedUp(last'.arg)][f] =
                            clients_database.at[LookedUp(last'.arg)][f]
                 /\ \A k \in Range(clients_database.order) \ {LookedUp(last'.arg)} :
                        clients_database'.at[k] = clients_database.at[k]
                 /\ clients_by_bank' = clients_by_bank]_vars

\* C6 witness: the last lookup found a record that now counts two calls, the
\* last of them at the time of that lookup, beside another record.
C6_Witness ==
    /\ last.op = "search"
    /\ IsHit(clients_database, last.arg)
    /\ clients_database.at[LookedUp(last.arg)].nb_appels = 2
    /\ clients_database.at[LookedUp(last.arg)].dernier_appel = last.arg.now
    /\ DictLen(clients_database) = 2

\* C7 (as claimed): on a hit the returned record is a copy of the updated
\* one: its nb_appels and dernier_appel are the stored ones after the call.
C7_ReturnsUpdatedCopy ==
    (last.op = "search" /\ IsHit(clients_database, last.arg)) =>
        /\ last.ret.nb_appels = clients_database.at[LookedUp(last.arg)].nb_appels
        /\ last.ret.dernier_appel = clients_database.at[LookedUp(last.arg)].dernier_appel

\* C8: a lookup of an empty string, of a string that does not normalise or
\* of a phone that is not stored answers with the "Non référencé" placeholder
\* and leaves the store and the grouping index as they were.
C8_MissLeavesStore ==
    [][(last'.op = "search" /\ ~IsHit(clients_database, last'.arg)) =>
          /\ last'.status = 200
          /\ last'.ret.statut = NonReference
          /\ last'.ret.telephone = last'.arg.phone
          /\ clients_database' = clients_database
          /\ clients_by_bank' = clients_by_bank]_vars

\* C8 witness: the last lookup, of a well-formed phone, found nothing in a
\* store that holds records, and the placeholder is not among them.
C8_Witness ==
    /\ last.op = "search"
    /\ LookedUp(last.arg) # None
    /\ ~DictHas(clients_database, LookedUp(last.arg))
    /\ last.ret.statut = NonReference
    /\ DictLen(clients_database) = 2

\* The display names of the outcomes that have no prefix.
NoPrefixNames == {NA, BankEmoji \o BanqueEtrangere, BankEmoji \o IbanInvalide}

\* banque and bank_code of a record agree with each other and with its iban.
BankFieldsAgree(r) ==
    /\ r.bank_code = unknown <=> r.banque \in NoPrefixNames
    /\ r.bank_code # unknown =>
           /\ Len(clean_iban(r.iban)) >= 14
           /\ r.bank_code = SubSeq(clean_iban(r.iban), 5, 9)
           /\ r.banque = BankEmoji \o (IF r.bank_code \in DOMAIN all_banks
                                       THEN <<all_banks[r.bank_code]>>
                                       ELSE BanqueFrancaise(r.bank_code))

\* C17: in every stored record bank_code is "unknown" exactly when banque is
\* the N/A, the foreign-bank or the invalid-identifier name; otherwise it is
\* characters 4..8 of the record's cleaned iban and banque names that prefix
\* from the routing table or by the fallback.  A lookup changes neither
\* field of any record.
C17_BankFieldsConsistent ==
    /\ [](\A k \in Range(clients_database.order) : BankFieldsAgree(clients_database.at[k]))
    /\ [][last'.op = "search" =>
             \A k \in Range(clients_database.order) :
                 /\ DictHas(clients_database', k)
                 /\ clients_database'.at[k].banque = clients_database.at[k].banque
                 /\ clients_database'.at[k].bank_code = clients_database.at[k].bank_code]_vars

\* C17 witness: a lookup has counted a call on a stored record that has no
\* prefix because its French identifier is too short.
C17_Witness ==
    /\ last.op = "search"
    /\ \E k \in Range(clients_database.order) :
           /\ clients_database.at[k].banque = BankEmoji \o IbanInvalide
           /\ clients_database.at[k].bank_code = unknown
           /\ StartsWith(clean_iban(clients_database.at[k].iban), FR)
           /\ clients_database.at[k].nb_appels > 0

\* The store a text upload of the all-records export of the store leaves.
ReIngested == PipeLoop(generate_all_clients_file(clients_database, txt).content, <<"t0">>).db

SameNamesAndAccounts(a, b) ==
    /\ Range(a.order) = Range(b.order)
    /\ \A k \in Range(a.order) \cap Range(b.order) :
           /\ b.at[k].nom = a.at[k].nom
           /\ b.at[k].prenom = a.at[k].prenom
           /\ b.at[k].iban = a.at[k].iban

\* C20 (as claimed): for every reachable store, a text upload of its
\* all-records text export leaves a store with the same phones in which each
\* record has the nom, prenom and iban it had.
C20_ExportRoundTrip == SameNamesAndAccounts(clients_database, ReIngested)

(***************************************************************************)
(* Properties of the store under concurrent requests (SpecConc)            *)
(***************************************************************************)

\* C9 (as claimed): a lookup or a per-bank export that runs beside an upload
\* or a clear never fails: it is never answered with a server error because
\* a phone or a bank it found a moment ago is gone.
C9_ReadersNeverFail ==
    \A t \in Threads :
        (th[t].pc = "done" /\ th[t].op \in {"search", "bank"}) => th[t].status # 500

\* The store an upload leaves when it is served alone.
Alone(arg) ==
    upload_file(EmptyDict, EmptyDict, InitialStats, arg.name, arg.payload, arg.now)

\* C10 (as claimed): when two uploads served concurrently have both
\* answered 200, the store and the grouping index are those that one of the
\* two leaves when served alone.
C10_ConcurrentUploadsSerialize ==
    (\A t \in Threads : th[t].pc = "done" /\ th[t].op = "upload" /\ th[t].status = 200) =>
        \E t \in Threads :
            /\ clients_database = Alone(th[t].arg).db
            /\ clients_by_bank = Alone(th[t].arg).by_bank

\* C11 (as claimed): when every thread has served a lookup that found the
\* same stored phone, and nothing else ran, the stored nb_appels of that
\* record is higher than it was by the number of lookups.
C11_NoLostIncrement ==
    (\A t \in Threads :
        /\ th[t].pc = "done" /\ th[t].op = "search" /\ th[t].status = 200
        /\ th[t].ret.statut # NonReference) =>
    \A t \in Threads :
        /\ DictHas(clients_database, th[t].key)
        /\ clients_database.at[th[t].key].nb_appels =
               Alone(boot).db.at[th[t].key].nb_appels + Cardinality(Threads)

(***************************************************************************)
(* Properties of PhoneNormalizer (SpecPure)                                *)
(***************************************************************************)

Normalized == last.op = "normalize_phone"

\* C12: for a nine-digit string d, each of the five shapes 0033d, +33d, 33d,
\* 0d and d, with or without separators (space, dot, dash, parentheses)
\* among its characters, normalises to "0" followed by d.
C12_ShapesAgree ==
    (Normalized /\ last.arg.shape \in DOMAIN Shapes) =>
        last.ret = <<"0">> \o last.arg.d

\* C12 witness: a number written +33..., with separators, whose digits begin
\* with 33, came out as "0" and those digits.
C12_Witness ==
    /\ Normalized
    /\ last.arg.shape = 2
    /\ Len(last.arg.phone) > 12
    /\ SubSeq(last.arg.d, 1, 2) = <<"3", "3">>
    /\ last.ret = <<"0">> \o last.arg.d

\* C13: normalising a value the normaliser returned returns it unchanged.
C13_Idempotent ==
    (Normalized /\ last.ret # None) => normalize_phone(last.ret) = last.ret

\* C13 witness: an input that was not canonical has a canonical value, and
\* that value normalises to itself.
C13_Witness ==
    /\ Normalized
    /\ last.ret # None
    /\ last.ret # last.arg.phone
    /\ normalize_phone(last.ret) = last.ret

AsciiDigits == {"0", "1", "2", "3", "4", "5", "6", "7", "8", "9"}

\* C14 (as claimed): the normaliser returns the absent result or a string
\* of exactly ten characters, "0" followed by nine of the digits 0 to 9.
C14_AbsentOrCanonical ==
    Normalized =>
        \/ last.ret = None
        \/ /\ Len(last.ret) = 10
           /\ last.ret[1] = "0"
           /\ \A i \in 2..10 : last.ret[i] \in AsciiDigits

\* The cleaning as claimed: digits are kept, and a "+" only when it is the
\* first character kept.
RECURSIVE RefClean(_, _)
RefClean(phone, kept) ==
    IF phone = <<>> THEN kept
    ELSE RefClean(Tail(phone),
                  IF Head(phone) \in Digits \/ (Head(phone) = "+" /\ kept = <<>>)
                  THEN Append(kept, Head(phone)) ELSE kept)

\* C15 (as claimed): the normaliser answers as the shape rules do on the
\* input stripped of every character but the digits and a leading "+"; a
\* "+" further on is dropped like a separator.
C15_InnerPlusIsSeparator ==
    (Normalized /\ last.arg.phone # None) =>
        last.ret = normalize_phone(RefClean(last.arg.phone, <<>>))

(***************************************************************************)
(* Properties of AccountClassifier and of the routing table (SpecPure)     *)
(***************************************************************************)

Classified == last.op = "detect_bank"

\* The reference as claimed, on an identifier without spaces and hyphens
\* and in upper case.
RefClassify(id) ==
    IF id = <<>> THEN <<NA, unknown>>
    ELSE IF Len(id) < 2 \/ SubSeq(id, 1, 2) # <<"F", "R">> THEN <<BanqueEtrangere, unknown>>
    ELSE IF Len(id) < 14 THEN <<IbanInvalide, unknown>>
    ELSE <<IF SubSeq(id, 5, 9) \in DOMAIN all_banks
           THEN <<all_banks[SubSeq(id, 5, 9)]>>
           ELSE BanqueFrancaise(SubSeq(id, 5, 9)),
           SubSeq(id, 5, 9)>>

\* C16: for an identifier in any writing (spaces, hyphens, letter case) the
\* classifier returns the display name and the prefix that the reference
\* gives for the identifier without separators and in upper case.
C16_ClassifierIsReference ==
    Classified => last.ret = RefClassify(last.arg.base)

\* C16 witness: a French identifier written in lower case and in groups was
\* classified to the prefix of its characters 4..8 and a name of the table.
C16_Witness ==
    /\ Classified
    /\ last.arg.iban \notin {None, last.arg.base, Lower(last.arg.base)}
    /\ Lower(last.arg.iban) = last.arg.iban
    /\ Len(last.arg.base) >= 14
    /\ last.ret[2] = SubSeq(last.arg.base, 5, 9)
    /\ last.ret[2] \in DOMAIN all_banks
    /\ last.ret[1] = <<all_banks[last.ret[2]]>>

\* The prefix looked up for a classified identifier that carries one.
PrefixOf(arg) == SubSeq(arg.base, 5, 9)

HasPrefix(arg) == Len(arg.base) >= 14 /\ SubSeq(arg.base, 1, 2) = <<"F", "R">>

\* C18: the name looked up for a prefix is the regional-network table's
\* when that table defines the prefix, the general table's when only the
\* general table defines it, and none (the fallback name) when neither does.
C18_RegionalNameWins ==
    (Classified /\ HasPrefix(last.arg)) =>
        /\ PrefixOf(last.arg) \in DOMAIN codes_ca =>
               last.ret[1] = <<codes_ca[PrefixOf(last.arg)]>>
        /\ PrefixOf(last.arg) \in (DOMAIN local_banks) \ (DOMAIN codes_ca) =>
               last.ret[1] = <<local_banks[PrefixOf(last.arg)]>>
        /\ PrefixOf(last.arg) \notin (DOMAIN local_banks) \cup (DOMAIN codes_ca) =>
               last.ret[1] = BanqueFrancaise(PrefixOf(last.arg))

\* C18 witness: an identifier whose prefix both tables define, under two
\* names, was given the regional-network name.
C18_Witness ==
    /\ Classified
    /\ HasPrefix(last.arg)
    /\ PrefixOf(last.arg) \in (DOMAIN local_banks) \cap (DOMAIN codes_ca)
    /\ local_banks[PrefixOf(last.arg)] # codes_ca[PrefixOf(last.arg)]
    /\ last.ret[1] = <<codes_ca[PrefixOf(last.arg)]>>

(***************************************************************************)
(* Properties of the text parser on files with bad lines (SpecPure)        *)
(***************************************************************************)

\* The lines of an uploaded text, as the file separates them.
LinesOf(content) == Split(Strip(content), "\n")

\* A line as claimed to be stored: not blank, seven fields or more, and a
\* phone that normalises.
WellFormed(line) ==
    /\ \E i \in DOMAIN line : line[i] \notin Whitespace
    /\ Cardinality({i \in DOMAIN line : line[i] = "|"}) >= 6
    /\ normalize_phone(Strip(Split(line, "|")[1])) # None

GoodLinesOf(content) == SelectSeq(LinesOf(content), WellFormed)

TextLoaded == last.op = "upload" /\ last.arg.payload.kind = "text"

\* C19: a text upload with blank lines, lines of fewer than seven fields
\* and lines whose phone does not normalise is answered 200, counts the
\* well-formed lines, stores the phone of each of them, and leaves the store
\* and the index that the well-formed lines alone, in their order, leave.
C19_BadLinesAreSkipped ==
    TextLoaded =>
        /\ last.status = 200
        /\ last.ret.clients = Len(GoodLinesOf(last.arg.payload.content))
        /\ \A i \in DOMAIN GoodLinesOf(last.arg.payload.content) :
               DictHas(clients_database,
                       normalize_phone(Strip(Split(
                           GoodLinesOf(last.arg.payload.content)[i], "|")[1])))
        /\ clients_database =
               PipeLoop(Join(GoodLinesOf(last.arg.payload.content), <<"\n">>),
                        last.arg.now).db
        /\ clients_by_bank =
               PipeLoop(Join(GoodLinesOf(last.arg.payload.content), <<"\n">>),
                        last.arg.now).by_bank

\* C19 witness: the second of three lines was not well formed, the first
\* and the third were and had different phones, and both are stored.
C19_Witness ==
    /\ TextLoaded
    /\ Len(LinesOf(last.arg.payload.content)) = 3
    /\ WellFormed(LinesOf(last.arg.payload.content)[1])
    /\ ~WellFormed(LinesOf(last.arg.payload.content)[2])
    /\ WellFormed(LinesOf(last.arg.payload.content)[3])
    /\ DictLen(clients_database) = 2
    /\ last.ret.clients = 2

(***************************************************************************)
(* Properties of clear, of the upload boundary and of the statistics       *)
(***************************************************************************)

\* C23: a clear leaves the store and the grouping index empty and the
\* statistics as they are at start-up, and reports the number of records
\* the store held; a lookup served right after it answers with the
\* "Non référencé" placeholder and stores nothing.
C23_ClearEmptiesAndCounts ==
    [][/\ last'.op = "clear" =>
             /\ clients_database' = EmptyDict
             /\ clients_by_bank' = EmptyDict
             /\ upload_stats' = InitialStats
             /\ last'.status = 200
             /\ last'.ret = Cardinality(Range(clients_database.order))
       /\ (last.op = "clear" /\ last'.op = "search") =>
             /\ last'.ret.statut = NonReference
             /\ clients_database' = EmptyDict]_vars

\* C23 witness: a clear has emptied a store of two records whose statistics
\* were set, and reported 2.
C23_Witness ==
    /\ last.op = "clear"
    /\ last.ret = 2
    /\ clients_database = EmptyDict
    /\ clients_by_bank = EmptyDict
    /\ upload_stats.total_clients = 0
    /\ upload_stats.last_upload = None

\* The formats an upload may have.
SupportedFormats == {<<"t","x","t">>, <<"x","l","s">>, <<"x","l","s","x">>}

\* C24: an upload whose name ends in no supported format (the lower-cased
\* text after its last dot, nothing when it has no dot) is answered 400 and
\* leaves the store, the grouping index and the statistics as they were.
C24_UnsupportedFormatRejected ==
    [][(last'.op = "upload" /\ FileExt(last'.arg.name) \notin SupportedFormats) =>
          /\ last'.status = 400
          /\ clients_database' = clients_database
          /\ clients_by_bank' = clients_by_bank
          /\ upload_stats' = upload_stats]_vars

\* C24 witness: a .pdf upload was answered 400 on a store of two records,
\* which are still there with their statistics.
C24_Witness ==
    /\ last.op = "upload"
    /\ FileExt(last.arg.name) = <<"p","d","f">>
    /\ last.status = 400
    /\ DictLen(clients_database) = 2
    /\ DictLen(clients_by_bank) = 2
    /\ upload_stats.total_clients = 2

\* C27 (as claimed): after an ingestion the banks_detected statistic is the
\* number of stored records whose bank_code is a key of the routing table.
C27_DetectedCountsNamedRecords ==
    Ingested =>
        upload_stats.banks_detected =
            Cardinality({k \in Range(clients_database.order) :
                            clients_database.at[k].bank_code \in DOMAIN all_banks})

\* C28 (as claimed): in every state between two requests the total_clients
\* statistic is the number of records in the store.
C28_TotalIsStoreSize ==
    upload_stats.total_clients = Cardinality(Range(clients_database.order))

(***************************************************************************)
(* Properties of the spreadsheet header inference and of the inline        *)
(* classification (SpecPure)                                               *)
(***************************************************************************)

\* A header that names the first name, in a spelling the code lists.
IsFirstNameHeader(cell) ==
    cell # None /\ Strip(Lower(cell)) \in {<<"p","r","e","n","o","m">>, <<"p","r","é","n","o","m">>}

\* A header that names the last name.
IsLastNameHeader(cell) == cell # None /\ Strip(Lower(cell)) = <<"n","o","m">>

\* C26 (as claimed): every first-name header, spelled prenom or prénom in
\* any letter case, is assigned to the first-name column and never to the
\* last-name column; when the row has a last-name header, the last-name
\* column is mapped to a last-name header.
C26_FirstNameHeaderIsFirstName ==
    last.op = "col_mapping" =>
        /\ \A i \in DOMAIN last.arg.first_row :
               IsFirstNameHeader(last.arg.first_row[i]) => last.ret.cols[i] = "prenom"
        /\ (\E i \in DOMAIN last.arg.first_row : IsLastNameHeader(last.arg.first_row[i])) =>
               /\ "nom" \in DOMAIN last.ret.mapping
               /\ IsLastNameHeader(last.arg.first_row[last.ret.mapping["nom"] + 1])

\* The display name a parser stores for an outcome of the classifier.
StoredName(name) == IF name = NA THEN NA ELSE BankEmoji \o name

\* C29 (as claimed): in every record a parser stored, bank_code is
\* extract_bank_code of the record's identifier and banque names the outcome
\* of detect_bank on it.
C29_InlineIsClassifier ==
    (last.op = "upload" /\ last.status = 200) =>
        \A k \in Range(clients_database.order) :
            /\ clients_database.at[k].bank_code = extract_bank_code(clients_database.at[k].iban)
            /\ clients_database.at[k].banque = StoredName(detect_bank(clients_database.at[k].iban))

(***************************************************************************)
(* The exports                                                             *)
(***************************************************************************)

\* The phones of a list whose stored record is of bank p, each once, in
\* the order they first come in the list.
RECURSIVE OwnPhones(_, _, _)
OwnPhones(db, phones, p) ==
    IF phones = <<>> THEN <<>>
    ELSE LET before == OwnPhones(db, SubSeq(phones, 1, Len(phones) - 1), p)
             phone == phones[Len(phones)]
         IN  IF DictHas(db, phone) /\ db.at[phone].bank_code = p /\ phone \notin Range(before)
             THEN Append(before, phone)
             ELSE before

\* A per-bank export was served.
BankExported == last.op = "bank" /\ last.status = 200

\* An all-records export was served.
AllExported == last.op = "all" /\ last.status = 200

\* C21: the per-bank export for bank p holds exactly one entry for each
\* stored record whose bank is p, none for a record of another bank, in the
\* order the records were first filed under p; the all-records export holds
\* exactly one entry per stored record, in insertion order; and an export
\* asked again of the unchanged store gives the same content.
C21_ExportsEmitEachRecordOnce ==
    /\ [](BankExported =>
            LET p == last.arg.bank_code
                own == OwnPhones(clients_database, DefaultList(clients_by_bank, p), p)
            IN  /\ Range(own) = {phone \in Range(clients_database.order) :
                                    clients_database.at[phone].bank_code = p}
                /\ last.ret.content
                     = ExportContent([i \in DOMAIN own |-> clients_database.at[own[i]]],
                                     last.arg.format_type, FALSE))
    /\ [](AllExported =>
            last.ret.content
              = ExportContent([i \in DOMAIN clients_database.order |->
                                  clients_database.at[clients_database.order[i]]],
                              last.arg.format_type, TRUE))
    /\ [][(last.op \in {"bank", "all"} /\ last'.op = last.op /\ last'.arg = last.arg)
            => last'.ret = last.ret]_vars

\* The step serves a lookup that finds no record.
MissStep == last'.op = "search" /\ ~IsHit(clients_database, last'.arg)

\* The step serves an export with a format selector the exports know.
ExportStep == last'.op \in {"bank", "all"} /\ last'.arg.format_type \in {txt, csv}

\* The step serves a per-bank export, with a format selector the exports
\* know, of a bank that is not a key of the grouping index.
AbsentBankStep ==
    /\ last'.op = "bank"
    /\ last'.arg.format_type \in {txt, csv}
    /\ ~DictHas(clients_by_bank, last'.arg.bank_code)

C25_ReadsLeaveStore ==
    [][last'.op \in ReadOps =>
          /\ clients_database' = clients_database
          /\ clients_by_bank' = clients_by_bank
          /\ upload_stats' = upload_stats]_vars

\* C25 witness: a per-bank export of a bank that is not filed was served on
\* a store of two records, and the index still has no key for that bank.
C25_Witness ==
    /\ last.op = "bank"
    /\ last.arg.format_type = txt
    /\ last.arg.bank_code = <<"1","2","3","4","5">>
    /\ ~DictHas(clients_by_bank, last.arg.bank_code)
    /\ DictLen(clients_by_bank) = 2
    /\ DictLen(clients_database) = 2

(***************************************************************************)
(* The rate limiter                                                        *)
(***************************************************************************)

\* The sends made in the WindowSeconds seconds that end at time now.
SentWithin(now) == {j \in DOMAIN limiter.sent : now - limiter.sent[j] < WindowSeconds}

\* How many times a time stands in a list of call times.
TimesIn(calls, now) == Cardinality({j \in DOMAIN calls : calls[j] = now})

\* C30: no window of 60 seconds holds more than 30 sends; a call made when
\* 30 sends were made in the 60 seconds before it raises, runs no send and
\* is not recorded; and a call made when fewer than 30 were is let through.
C30_AtMostThirtyPerWindow ==
    /\ [](\A i \in DOMAIN limiter.sent :
             Cardinality({j \in DOMAIN limiter.sent :
                             /\ limiter.sent[i] <= limiter.sent[j]
                             /\ limiter.sent[j] < limiter.sent[i] + WindowSeconds}) <= 30)
    /\ [][(last'.op = "send" /\ limiter'.clock = limiter.clock) =>
            IF Cardinality(SentWithin(limiter.clock)) >= 30
            THEN /\ last'.status = 500
                 /\ limiter'.sent = limiter.sent
                 /\ TimesIn(limiter'.calls, limiter.clock) = TimesIn(limiter.calls, limiter.clock)
            ELSE /\ last'.status = 200
                 /\ limiter'.sent = Append(limiter.sent, limiter.clock)
                 /\ TimesIn(limiter'.calls, limiter.clock) = TimesIn(limiter.calls, limiter.clock) + 1]_vars

\* C30 witness: a call was refused at time 0, 30 sends standing in the
\* window, and 60 seconds later, the window having moved past them, a call
\* was let through again.
C30_Witness ==
    /\ last.op = "send"
    /\ last.status = 200
    /\ 0 \in limiter.refused
    /\ Len(limiter.sent) = 31
    /\ limiter.sent[30] = 0
    /\ limiter.sent[31] = 60

====
